---- MODULE Spec2Model ----
(***************************************************************************)
(* Model of the Hachimi installer (src/src/installer.rs, src/src/utils.rs). *)
(*                                                                         *)
(* Text is a sequence of tokens.  A token is one character that the code   *)
(* inspects ("\"", "\\", "{", "}", " ") or an indivisible run of other     *)
(* characters ("3564400", "LaunchOptions", "FunnyHoney.exe", ...).         *)
(* Offsets are 0-based and ranges half-open, as in the Rust source.        *)
(* A path is the sequence of its components.  Option<T> is <<>> (None) or  *)
(* <<x>> (Some(x)).                                                        *)
(*                                                                         *)
(* A handler is one step, and what steam.exe does and what the user        *)
(* answers while it runs are its inputs.  The Steam check is modelled a    *)
(* second time line by line: steamRunning tells whether steam.exe runs and *)
(* pc where a call of ensure_steam_closed stands; where handlers are one   *)
(* step, the two stay as they start.                                       *)
(***************************************************************************)
EXTENDS Integers, Sequences, FiniteSets, TLC

VARIABLES inst, fs, registry, wine, steamEnv, last, saved, steamRunning, pc

vars == <<inst, fs, registry, wine, steamEnv, last, saved, steamRunning, pc>>

(***************************************************************************)
(* Bounds of the model.                                                    *)
(***************************************************************************)
\* number of Steam user profiles under userdata
NumProfiles == 2
\* longest prior LaunchOptions value, counted in units (a unit is a plain
\* token or one escape sequence)
MaxValUnits == 2
\* most polls of steam.exe one call of ensure_steam_closed makes
MaxPolls == 2
\* longest run of braces and other tokens after the app key in a scanned text
MaxBraces == 6
\* longest text handed to find_vdf_value_range
MaxText == 5

(***************************************************************************)
(* Option and text helpers.                                                *)
(***************************************************************************)
None == <<>>
Some(x) == <<x>>
IsSome(o) == o # <<>>
Unwrap(o) == o[1]

QUOTE == "\""
BACKSLASH == "\\"
LBRACE == "{"
RBRACE == "}"
SPACE == " "
TAB == "\t"
NEWLINE == "\n"

\* s[a..b] of Rust: the tokens at offsets a .. b-1
Slice(s, a, b) == SubSeq(s, a + 1, b)

\* str::find: offset of the first occurrence of pat in s, searched from
\* offset i on
RECURSIVE FindFrom(_, _, _)
FindFrom(s, pat, i) ==
    IF i + Len(pat) > Len(s) THEN None
    ELSE IF (pat = <<>> \/ s[i + 1] = pat[1]) /\ Slice(s, i, i + Len(pat)) = pat THEN Some(i)
    ELSE FindFrom(s, pat, i + 1)

Find(s, pat) == FindFrom(s, pat, 0)

\* str::contains
Contains(s, pat) == IsSome(Find(s, pat))

\* char::is_whitespace
is_whitespace(c) == c \in {SPACE, TAB, NEWLINE}

\* str::replace of one character by a string
RECURSIVE Replace(_, _, _)
Replace(s, c, by) ==
    IF s = <<>> THEN <<>>
    ELSE (IF Head(s) = c THEN by ELSE <<Head(s)>>) \o Replace(Tail(s), c, by)

\* a replacement that leaves the last character of the range in place
replace_range_short(s, a, b, by) == Slice(s, 0, a) \o by \o Slice(s, b - 1, Len(s))

\* String::replace_range(a..b, by)
replace_range(s, a, b, by) == Slice(s, 0, a) \o by \o Slice(s, b, Len(s))

\* String::insert_str(at, text)
insert_str(s, at, text) == Slice(s, 0, at) \o text \o Slice(s, at, Len(s))

(***************************************************************************)
(* The VDF scanner.                                                        *)
(***************************************************************************)
APP_ID == <<"3564400">>
LAUNCH_OPTIONS_KEY == <<QUOTE, "LaunchOptions", QUOTE>>
FUNNY_HONEY == "FunnyHoney.exe"
MAIN_EXE_STEAM == "UmamusumePrettyDerby_Jpn.exe"
MAIN_EXE_GLOBAL == "UmamusumePrettyDerby.exe"
MAIN_EXE_DMM == "umamusume.exe"
LAUNCHER_EXE == "hachimi_launcher.exe"
LAUNCH_OPT_BACKUP_FILE == ".hachimi_launch_options.bak"

\* an escaping that prefixes the quotes first and doubles the backslashes then
escape_vdf_value_quotes_first(val) ==
    Replace(Replace(val, QUOTE, <<BACKSLASH, QUOTE>>), BACKSLASH, <<BACKSLASH, BACKSLASH>>)

\* line 406
escape_vdf_value(val) ==
    Replace(Replace(val, BACKSLASH, <<BACKSLASH, BACKSLASH>>), QUOTE, <<BACKSLASH, QUOTE>>)

\* a scan that takes the first closing brace for the matching one
ScanDepth_flat(content, start_block, i, depth) ==
    IF ~Contains(Slice(content, start_block, Len(content)), <<RBRACE>>) THEN None
    ELSE Some(<<start_block,
                start_block
                + Unwrap(Find(Slice(content, start_block, Len(content)), <<RBRACE>>))>>)

\* the depth scan of find_vdf_app_range: i is the offset relative to
\* start_block, depth the depth before the character at i
RECURSIVE ScanDepth(_, _, _, _)
ScanDepth(content, start_block, i, depth) ==
    IF start_block + i >= Len(content) THEN None
    ELSE LET c == content[start_block + i + 1]
             d == IF c = LBRACE THEN depth + 1
                  ELSE IF c = RBRACE THEN depth - 1
                  ELSE depth
         IN  IF d = 0 THEN Some(<<start_block, start_block + i>>)
             ELSE ScanDepth(content, start_block, i + 1, d)

find_vdf_app_range(content, app_id) ==
    LET app_key == <<QUOTE>> \o app_id \o <<QUOTE>>
        app_idx == Find(content, app_key)
    IN  IF app_idx = None THEN None
        ELSE LET open_brace_rel ==
                     Find(Slice(content, Unwrap(app_idx), Len(content)), <<LBRACE>>)
             IN  IF open_brace_rel = None THEN None
                 ELSE ScanDepth(content,
                                Unwrap(app_idx) + Unwrap(open_brace_rel) + 1, 0, 1)

\* first loop of find_vdf_value_range: <<start_quote, idx>> after the loop
RECURSIVE SkipWhitespace(_, _)
SkipWhitespace(text, idx) ==
    IF idx >= Len(text) THEN <<None, idx>>
    ELSE LET c == text[idx + 1]
         IN  IF ~is_whitespace(c)
             THEN (IF c = QUOTE THEN <<Some(idx), idx + 1>> ELSE <<None, -1>>)
             ELSE SkipWhitespace(text, idx + 1)

\* a scan that takes a backslash for a plain character
RECURSIVE ScanValue_noescape(_, _, _)
ScanValue_noescape(text, start_pos, idx) ==
    IF idx >= Len(text) THEN None
    ELSE IF text[idx + 1] = QUOTE THEN Some(<<start_pos, idx>>)
    ELSE ScanValue_noescape(text, start_pos, idx + 1)

\* second loop of find_vdf_value_range
RECURSIVE ScanValue(_, _, _)
ScanValue(text, start_pos, idx) ==
    IF idx >= Len(text) THEN None
    ELSE LET c == text[idx + 1]
         IN  IF c = BACKSLASH THEN ScanValue(text, start_pos, idx + 2)
             ELSE IF c = QUOTE THEN Some(<<start_pos, idx>>)
             ELSE ScanValue(text, start_pos, idx + 1)

find_vdf_value_range(text) ==
    LET first == SkipWhitespace(text, 0)
    IN  IF first[1] = None THEN None
        ELSE ScanValue(text, Unwrap(first[1]), first[2])

(***************************************************************************)
(* The file system: a function from the paths of the existing files to     *)
(* their contents.                                                         *)
(***************************************************************************)
exists(f, p) == p \in DOMAIN f
write(f, p, bytes) == [q \in (DOMAIN f) \cup {p} |-> IF q = p THEN bytes ELSE f[q]]
remove_file(f, p) == [q \in (DOMAIN f) \ {p} |-> f[q]]
join(dir, name) == Append(dir, name)
parent(p) == SubSeq(p, 1, Len(p) - 1)

\* Path::display on Windows: the components separated by backslashes
RECURSIVE display(_)
display(p) ==
    IF Len(p) <= 1 THEN p
    ELSE <<Head(p), BACKSLASH>> \o display(Tail(p))

DmmDir == <<"dmm">>
SteamGameDir == <<"steam">>
SteamGlobalDir == <<"global">>
Dirs == {DmmDir, SteamGameDir, SteamGlobalDir}
SystemDir == <<"System32">>
UserdataDir == <<"Steam", "userdata">>
ProfileIds == 1..NumProfiles
config_path(i) == UserdataDir \o <<ToString(i), "config", "localconfig.vdf">>

\* contents of the files the installer embeds or meets
HACHIMI_DLL == <<"bytes:hachimi.dll">>
CELLAR_DLL == <<"bytes:cellar.dll">>
LAUNCHER_BYTES == <<"bytes:hachimi_launcher.exe">>
ORIGINAL_EXE == <<"bytes:UmamusumePrettyDerby_Jpn.exe">>
OTHER_BUILD_EXE == <<"bytes:UmamusumePrettyDerby_Jpn.exe(other build)">>
GAME_EXE == <<"bytes:game executable">>
GAME_PLUGIN == <<"bytes:cri_mana_vpx.dll(game)">>
EXPECTED_ORIGINAL_HASH ==
    <<"6519de9bbae11d3f7b779ce09b74e0a0c408b814518bff93da295c8f7b65ad5a">>

(***************************************************************************)
(* utils.rs                                                                *)
(***************************************************************************)
\* Sha256 and format!("{:x}"): the known build has the known digest, any
\* other content a digest of its own
Sha256Hex(bytes) ==
    IF bytes = ORIGINAL_EXE THEN EXPECTED_ORIGINAL_HASH ELSE <<"sha256 of">> \o bytes

\* str::to_lowercase on a hex digest
to_lowercase(hex) ==
    [i \in DOMAIN hex |->
        IF hex[i] = "6519DE9BBAE11D3F7B779CE09B74E0A0C408B814518BFF93DA295C8F7B65AD5A"
        THEN "6519de9bbae11d3f7b779ce09b74e0a0c408b814518bff93da295c8f7b65ad5a"
        ELSE hex[i]]

Ok == [kind |-> "Ok", msg |-> <<>>]
Err(kind, msg) == [kind |-> kind, msg |-> msg]

\* a check that accepts every file it can open
verify_file_hash_any_digest(f, path, expected_hash) ==
    IF ~exists(f, path) THEN Err("String", <<"Could not open file: ">>) ELSE Ok

verify_file_hash(f, path, expected_hash) ==
    IF ~exists(f, path) THEN Err("String", <<"Could not open file: ">>)
    ELSE LET found_hash == Sha256Hex(f[path])
         IN  IF to_lowercase(found_hash) = to_lowercase(expected_hash) THEN Ok
             ELSE Err("String", <<"Hash mismatch. Expected ">> \o expected_hash
                                \o <<", but found ">> \o found_hash)

\* bsdiff::patch: the reconstructed image, a function of the original image
bsdiff_patch(original_data) == <<"patched">> \o original_data

\* a patch that hands the reconstructed image back and leaves the disk alone
apply_patch_in_memory(f, original_data, output_path) == f

\* apply_patch creates output_path and writes the reconstructed image to it
apply_patch(f, original_data, output_path) ==
    write(f, output_path, bsdiff_patch(original_data))

(***************************************************************************)
(* Installer: paths and methods.                                           *)
(***************************************************************************)
dll_name(target) ==
    IF target = "UnityPlayer" THEN "UnityPlayer.dll" ELSE "cri_mana_vpx.dll"

\* a method table that takes only the Steam channel for a Steam-family one
get_install_method_steam_only(I, target) ==
    IF target = "UnityPlayer" THEN "DotLocal"
    ELSE IF I.game_version = Some("Steam") THEN "Direct"
    ELSE "PluginShim"

get_install_method(I, target) ==
    IF target = "UnityPlayer" THEN "DotLocal"
    ELSE IF I.game_version = Some("Steam") \/ I.game_version = Some("SteamGlobal")
         THEN "Direct"
         ELSE "PluginShim"

main_exe_name(game_version) ==
    IF game_version = Some("Steam") THEN MAIN_EXE_STEAM
    ELSE IF game_version = Some("SteamGlobal") THEN MAIN_EXE_GLOBAL
    ELSE MAIN_EXE_DMM

get_target_path_internal(I, target, p) ==
    IF I.install_dir = None THEN None
    ELSE LET install_dir == Unwrap(I.install_dir)
             method == get_install_method(I, target)
         IN  Some(IF method = "DotLocal"
                  THEN join(join(install_dir, main_exe_name(I.game_version) \o ".local"), p)
                  ELSE IF method = "PluginShim" THEN join(SystemDir, p)
                  ELSE join(install_dir, p))

get_current_target_path(I) ==
    get_target_path_internal(I, I.target,
        IF IsSome(I.custom_target) THEN Unwrap(I.custom_target) ELSE dll_name(I.target))

get_dest_plugin_path(I) ==
    IF I.install_dir = None THEN None
    ELSE Some(Unwrap(I.install_dir) \o <<"hachimi", dll_name(I.target)>>)

get_src_plugin_path(I) ==
    IF I.install_dir = None THEN None
    ELSE Some(Unwrap(I.install_dir)
              \o <<"umamusume_Data", "Plugins", "x86_64", dll_name(I.target)>>)

\* a detection that looks for the Steam-family markers in the other order
\* and names them by it
detect_version_from_dir_swapped(f, dir) ==
    IF exists(f, join(dir, MAIN_EXE_DMM)) THEN Some("DMM")
    ELSE IF exists(f, join(dir, MAIN_EXE_GLOBAL)) THEN Some("Steam")
    ELSE IF exists(f, join(dir, MAIN_EXE_STEAM)) THEN Some("SteamGlobal")
    ELSE None

detect_version_from_dir(f, dir) ==
    IF exists(f, join(dir, MAIN_EXE_DMM)) THEN Some("DMM")
    ELSE IF exists(f, join(dir, MAIN_EXE_STEAM)) THEN Some("Steam")
    ELSE IF exists(f, join(dir, MAIN_EXE_GLOBAL)) THEN Some("SteamGlobal")
    ELSE None

(***************************************************************************)
(* The Steam-closed check.  One call of ensure_steam_closed is given the   *)
(* script of what it meets: script[i].running is what the i-th poll of     *)
(* steam.exe observes, script[i].answer what the user answers to the i-th  *)
(* Retry/Cancel prompt.  The result tells whether the loop ended within    *)
(* the script, the error or Ok, the log of polls and prompts, and the last *)
(* observation of Steam.                                                   *)
(***************************************************************************)
RECURSIVE SteamLoop(_, _, _)
SteamLoop(script, i, log) ==
    IF i > Len(script) THEN [ended |-> FALSE, res |-> Ok, log |-> log, used |-> i - 1]
    ELSE IF script[i].running
         THEN LET log1 == log \o << <<"poll", "running">>, <<"prompt_retry_cancel", script[i].answer>> >>
              IN  IF script[i].answer = "Cancel"
                  THEN [ended |-> TRUE,
                        res |-> Err("Generic", <<"Steam is running. Cannot modify configuration.">>),
                        log |-> log1, used |-> i]
                  ELSE SteamLoop(script, i + 1, log1)
         ELSE [ended |-> TRUE, res |-> Ok, log |-> Append(log, <<"poll", "not running">>),
               used |-> i]

ensure_steam_closed(I, script) ==
    IF I.hwnd = None THEN [ended |-> TRUE, res |-> Ok, log |-> <<>>, used |-> 0]
    ELSE SteamLoop(script, 1, <<>>)

(***************************************************************************)
(* Launch options.  A handler is written as its stages, each stage an      *)
(* operator that is handed the values the code has computed so far under   *)
(* the names the code gives them.                                          *)
(***************************************************************************)
get_launch_command(I, wineEnv) ==
    IF wineEnv
    THEN [res |-> Ok,
          cmd |-> <<"cp", SPACE, "-f", SPACE, FUNNY_HONEY, SPACE, MAIN_EXE_STEAM,
                    SPACE, "&&", SPACE, "%command%">>]
    ELSE IF I.install_dir = None THEN [res |-> Err("NoInstallDir", <<>>), cmd |-> <<>>]
    ELSE [res |-> Ok,
          cmd |-> <<QUOTE>> \o display(join(Unwrap(I.install_dir), LAUNCHER_EXE))
                  \o <<QUOTE, SPACE, "%command%">>]

\* The scan that setup_launch_options makes twice (lines 493-501, 544-552)
\* and restore_launch_options once (lines 615-623): the app block, the
\* offset after the "LaunchOptions" key in it, and the value range after it.
NotLocated == [block |-> None, after_key_idx |-> None, vr |-> None]

locate_value(content, start_block, end_block, after_key_idx) ==
    [block |-> Some(<<start_block, end_block>>),
     after_key_idx |-> Some(after_key_idx),
     vr |-> find_vdf_value_range(Slice(content, after_key_idx, end_block))]

locate_key(content, start_block, end_block, rel_key_idx) ==
    IF rel_key_idx = None
    THEN [NotLocated EXCEPT !.block = Some(<<start_block, end_block>>)]
    ELSE locate_value(content, start_block, end_block,
                      start_block + Unwrap(rel_key_idx) + Len(LAUNCH_OPTIONS_KEY))

locate_block(content, range) ==
    IF range = None THEN NotLocated
    ELSE locate_key(content, Unwrap(range)[1], Unwrap(range)[2],
                    Find(Slice(content, Unwrap(range)[1], Unwrap(range)[2]),
                         LAUNCH_OPTIONS_KEY))

locate_launch_options(content, app_id) ==
    locate_block(content, find_vdf_app_range(content, app_id))

\* lines 502-504: the quoted value at a located range
quoted_value_at(content, loc) ==
    IF loc.vr = None THEN None
    ELSE Some(Slice(content, Unwrap(loc.after_key_idx) + Unwrap(loc.vr)[1],
                    Unwrap(loc.after_key_idx) + Unwrap(loc.vr)[2] + 1))

current_quoted_value(content, app_id) ==
    quoted_value_at(content, locate_launch_options(content, app_id))

\* an edit that backs the value up together with its quotes
edit_at_quoted_backup(content, loc, escaped_val, expected_vdf_value) ==
    IF loc.block = None
    THEN [modified |-> FALSE, content |-> content, backup_value |-> <<>>]
    ELSE IF loc.after_key_idx = None
    THEN [modified |-> TRUE, backup_value |-> <<>>,
          content |-> insert_str(content, Unwrap(loc.block)[2],
                          <<TAB>> \o LAUNCH_OPTIONS_KEY \o <<TAB, TAB, QUOTE>> \o escaped_val
                          \o <<QUOTE, NEWLINE, TAB, TAB, TAB, TAB, TAB>>)]
    ELSE IF loc.vr = None
    THEN [modified |-> FALSE, content |-> content, backup_value |-> <<>>]
    ELSE [modified |-> TRUE,
          backup_value |-> Slice(content,
                                 Unwrap(loc.after_key_idx) + Unwrap(loc.vr)[1],
                                 Unwrap(loc.after_key_idx) + Unwrap(loc.vr)[2] + 1),
          content |-> replace_range(content,
                                    Unwrap(loc.after_key_idx) + Unwrap(loc.vr)[1],
                                    Unwrap(loc.after_key_idx) + Unwrap(loc.vr)[2] + 1,
                                    expected_vdf_value)]

\* an edit that puts a missing key after the block's closing brace
edit_at_insert_after_block(content, loc, escaped_val, expected_vdf_value) ==
    IF loc.block = None
    THEN [modified |-> FALSE, content |-> content, backup_value |-> <<>>]
    ELSE IF loc.after_key_idx = None
    THEN [modified |-> TRUE, backup_value |-> <<>>,
          content |-> insert_str(content, Unwrap(loc.block)[2] + 1,
                          <<TAB>> \o LAUNCH_OPTIONS_KEY \o <<TAB, TAB, QUOTE>> \o escaped_val
                          \o <<QUOTE, NEWLINE, TAB, TAB, TAB, TAB, TAB>>)]
    ELSE IF loc.vr = None
    THEN [modified |-> FALSE, content |-> content, backup_value |-> <<>>]
    ELSE [modified |-> TRUE,
          backup_value |-> Slice(content,
                                 Unwrap(loc.after_key_idx) + Unwrap(loc.vr)[1] + 1,
                                 Unwrap(loc.after_key_idx) + Unwrap(loc.vr)[2]),
          content |-> replace_range(content,
                                    Unwrap(loc.after_key_idx) + Unwrap(loc.vr)[1],
                                    Unwrap(loc.after_key_idx) + Unwrap(loc.vr)[2] + 1,
                                    expected_vdf_value)]

\* lines 552-568: the edit of one config's content at a located range
edit_at(content, loc, escaped_val, expected_vdf_value) ==
    IF loc.block = None
    THEN [modified |-> FALSE, content |-> content, backup_value |-> <<>>]
    ELSE IF loc.after_key_idx = None
    THEN [modified |-> TRUE, backup_value |-> <<>>,
          content |-> insert_str(content, Unwrap(loc.block)[2],
                          <<TAB>> \o LAUNCH_OPTIONS_KEY \o <<TAB, TAB, QUOTE>> \o escaped_val
                          \o <<QUOTE, NEWLINE, TAB, TAB, TAB, TAB, TAB>>)]
    ELSE IF loc.vr = None
    THEN [modified |-> FALSE, content |-> content, backup_value |-> <<>>]
    ELSE [modified |-> TRUE,
          backup_value |-> Slice(content,
                                 Unwrap(loc.after_key_idx) + Unwrap(loc.vr)[1] + 1,
                                 Unwrap(loc.after_key_idx) + Unwrap(loc.vr)[2]),
          content |-> replace_range(content,
                                    Unwrap(loc.after_key_idx) + Unwrap(loc.vr)[1],
                                    Unwrap(loc.after_key_idx) + Unwrap(loc.vr)[2] + 1,
                                    expected_vdf_value)]

edit_launch_options(content, app_id, escaped_val, expected_vdf_value) ==
    edit_at(content, locate_launch_options(content, app_id), escaped_val, expected_vdf_value)

\* a restore that rewrites a value whatever it holds
restore_at_any_value(content, loc, backup_value) ==
    IF loc.vr = None THEN [modified |-> FALSE, content |-> content]
    ELSE [modified |-> TRUE,
          content |-> replace_range(content,
                                    Unwrap(loc.after_key_idx) + Unwrap(loc.vr)[1],
                                    Unwrap(loc.after_key_idx) + Unwrap(loc.vr)[2] + 1,
                                    <<QUOTE>> \o backup_value \o <<QUOTE>>)]

\* lines 623-634: the restore of one config's content at a located range
restore_at(content, loc, backup_value) ==
    IF loc.vr = None THEN [modified |-> FALSE, content |-> content]
    ELSE IF Contains(Slice(content, Unwrap(loc.after_key_idx) + Unwrap(loc.vr)[1] + 1,
                           Unwrap(loc.after_key_idx) + Unwrap(loc.vr)[2]),
                     <<FUNNY_HONEY>>)
    THEN [modified |-> TRUE,
          content |-> replace_range(content,
                                    Unwrap(loc.after_key_idx) + Unwrap(loc.vr)[1],
                                    Unwrap(loc.after_key_idx) + Unwrap(loc.vr)[2] + 1,
                                    <<QUOTE>> \o backup_value \o <<QUOTE>>)]
    ELSE [modified |-> FALSE, content |-> content]

restore_content(content, app_id, backup_value) ==
    restore_at(content, locate_launch_options(content, app_id), backup_value)

\* a scan that never finds the expected value
already_set_scan_blind(f, i, expected_vdf_value, log) == [found |-> FALSE, log |-> log]

\* lines 486-513: the scan for a profile that already holds the expected
\* value, from profile i on; the log lists the configs read
RECURSIVE already_set_scan(_, _, _, _)
already_set_scan(f, i, expected_vdf_value, log) ==
    IF i > NumProfiles THEN [found |-> FALSE, log |-> log]
    ELSE IF ~exists(f, config_path(i))
         THEN already_set_scan(f, i + 1, expected_vdf_value, log)
         ELSE IF current_quoted_value(f[config_path(i)], APP_ID) = Some(expected_vdf_value)
              THEN [found |-> TRUE, log |-> Append(log, <<"read">> \o config_path(i))]
              ELSE already_set_scan(f, i + 1, expected_vdf_value,
                                    Append(log, <<"read">> \o config_path(i)))

\* lines 535-577: the edit loop from profile i on
RECURSIVE edit_loop(_, _, _, _, _, _, _)
\* a write that the file system refuses: std::fs::write returns the I/O error
\* and leaves the file as it was
PermissionDenied == Err("IoError", <<"PermissionDenied">>)

\* the two writes in the other order: the config first, then the backup
commit_edit_config_first(f, i, backup_path, e, log, denied) ==
    IF config_path(i) \in denied
    THEN [res |-> PermissionDenied, fs |-> f,
          log |-> Append(log, <<"write_failed">> \o config_path(i))]
    ELSE IF backup_path \in denied
    THEN [res |-> PermissionDenied, fs |-> write(f, config_path(i), e.content),
          log |-> log \o << <<"write">> \o config_path(i),
                            <<"write_failed">> \o backup_path >>]
    ELSE [res |-> Ok,
          fs |-> write(write(f, backup_path, e.backup_value), config_path(i), e.content),
          log |-> log \o << <<"write">> \o config_path(i), <<"write">> \o backup_path >>]

\* lines 571-575: the two writes, the backup first, each ending the call
\* when it fails
commit_edit(f, i, backup_path, e, log, denied) ==
    IF backup_path \in denied
    THEN [res |-> PermissionDenied, fs |-> f,
          log |-> Append(log, <<"write_failed">> \o backup_path)]
    ELSE IF config_path(i) \in denied
    THEN [res |-> PermissionDenied, fs |-> write(f, backup_path, e.backup_value),
          log |-> log \o << <<"write">> \o backup_path,
                            <<"write_failed">> \o config_path(i) >>]
    ELSE [res |-> Ok,
          fs |-> write(write(f, backup_path, e.backup_value), config_path(i), e.content),
          log |-> log \o << <<"write">> \o backup_path, <<"write">> \o config_path(i) >>]

\* a loop that writes whether or not the content was modified
edit_profile_unconditional(f, i, backup_path, escaped_val, expected_vdf_value, log, e, denied) ==
    commit_edit(f, i, backup_path, e, log, denied)

edit_profile(f, i, backup_path, escaped_val, expected_vdf_value, log, e, denied) ==
    IF e.modified THEN commit_edit(f, i, backup_path, e, log, denied)
    ELSE edit_loop(f, i + 1, backup_path, escaped_val, expected_vdf_value, log, denied)

edit_loop(f, i, backup_path, escaped_val, expected_vdf_value, log, denied) ==
    IF i > NumProfiles THEN [res |-> Ok, fs |-> f, log |-> log]
    ELSE IF ~exists(f, config_path(i))
         THEN edit_loop(f, i + 1, backup_path, escaped_val, expected_vdf_value, log, denied)
         ELSE edit_profile(f, i, backup_path, escaped_val, expected_vdf_value,
                           Append(log, <<"read">> \o config_path(i)),
                           edit_launch_options(f[config_path(i)], APP_ID, escaped_val,
                                               expected_vdf_value),
                           denied)

\* lines 607-642: the restore loop from profile i on
RECURSIVE restore_loop(_, _, _, _)
restore_profile(f, i, backup_value, log, r) ==
    IF r.modified
    THEN restore_loop(write(f, config_path(i), r.content), i + 1, backup_value,
                      Append(log, <<"write">> \o config_path(i)))
    ELSE restore_loop(f, i + 1, backup_value, log)

restore_loop(f, i, backup_value, log) ==
    IF i > NumProfiles THEN [fs |-> f, log |-> log]
    ELSE IF ~exists(f, config_path(i)) THEN restore_loop(f, i + 1, backup_value, log)
         ELSE restore_profile(f, i, backup_value,
                              Append(log, <<"read">> \o config_path(i)),
                              restore_content(f[config_path(i)], APP_ID, backup_value))

\* what a handler hands back: the result, the file system it leaves, the log
\* of its steps, and how much of the Steam script it used
Outcome(res, f, log, used) ==
    [res |-> res, fs |-> f, log |-> log, used |-> used, ended |-> TRUE]
\* the Steam check was still waiting when its script ran out
Waiting(f, log, used) ==
    [res |-> Ok, fs |-> f, log |-> log, used |-> used, ended |-> FALSE]
WithLog(o, log) == [o EXCEPT !.log = log \o o.log]
LoopOutcome(e, used) == Outcome(e.res, e.fs, e.log, used)

\* lines 530-578
setup_edit(I, f, sEnv, escaped_val, expected_vdf_value, log, used, denied) ==
    IF sEnv # "ok" THEN Outcome(Ok, f, log, used)
    ELSE IF I.install_dir = None THEN Outcome(Err("NoInstallDir", <<>>), f, log, used)
    ELSE LoopOutcome(edit_loop(f, 1, join(Unwrap(I.install_dir), LAUNCH_OPT_BACKUP_FILE),
                               escaped_val, expected_vdf_value, log, denied),
                     used)

\* a setup that goes on to the edit whatever the Steam check returned
setup_steam_ignoring_cancel(I, f, sEnv, escaped_val, expected_vdf_value, log, steam, denied) ==
    IF ~steam.ended THEN Waiting(f, log \o steam.log, steam.used)
    ELSE setup_edit(I, f, sEnv, escaped_val, expected_vdf_value, log \o steam.log, steam.used,
                    denied)

\* line 528
setup_steam(I, f, sEnv, escaped_val, expected_vdf_value, log, steam, denied) ==
    IF ~steam.ended THEN Waiting(f, log \o steam.log, steam.used)
    ELSE IF steam.res # Ok THEN Outcome(steam.res, f, log \o steam.log, steam.used)
    ELSE setup_edit(I, f, sEnv, escaped_val, expected_vdf_value, log \o steam.log, steam.used,
                    denied)

\* lines 506-526
setup_prompt(I, f, sEnv, yesno, script, escaped_val, expected_vdf_value, scan, denied) ==
    IF scan.found THEN Outcome(Ok, f, scan.log, 0)
    ELSE IF I.hwnd # None
    THEN IF yesno # "Yes"
         THEN Outcome(Ok, f, Append(scan.log, <<"prompt_yes_no", yesno>>), 0)
         ELSE setup_steam(I, f, sEnv, escaped_val, expected_vdf_value,
                          Append(scan.log, <<"prompt_yes_no", yesno>>),
                          ensure_steam_closed(I, script), denied)
    ELSE setup_steam(I, f, sEnv, escaped_val, expected_vdf_value, scan.log,
                     ensure_steam_closed(I, script), denied)

\* lines 485-514
setup_scan(I, f, sEnv, yesno, script, escaped_val, expected_vdf_value, denied) ==
    setup_prompt(I, f, sEnv, yesno, script, escaped_val, expected_vdf_value,
                 IF sEnv = "ok" THEN already_set_scan(f, 1, expected_vdf_value, <<>>)
                 ELSE [found |-> FALSE, log |-> <<>>],
                 denied)

\* lines 478-483
setup_command(I, f, sEnv, yesno, script, cmd, denied) ==
    IF cmd.res # Ok THEN Outcome(cmd.res, f, <<>>, 0)
    ELSE IF sEnv = "absent"
    THEN Outcome(Err("Generic", <<"Could not locate Steam">>), f, <<>>, 0)
    ELSE setup_scan(I, f, sEnv, yesno, script, escape_vdf_value(cmd.cmd),
                    <<QUOTE>> \o escape_vdf_value(cmd.cmd) \o <<QUOTE>>, denied)

setup_launch_options(I, f, wineEnv, sEnv, yesno, script, denied) ==
    setup_command(I, f, sEnv, yesno, script, get_launch_command(I, wineEnv), denied)

\* line 644 and the return
restore_done(r, backup_path, used) ==
    Outcome(Ok, remove_file(r.fs, backup_path),
            Append(r.log, <<"remove">> \o backup_path), used)

\* a restore that takes a missing backup file for an empty one
restore_from_backup_unchecked(f, sEnv, log, used, backup_path) ==
    IF sEnv = "absent"
    THEN Outcome(Err("Generic", <<"Could not locate Steam">>), f,
                 Append(log, <<"read">> \o backup_path), used)
    ELSE IF sEnv # "ok" THEN Outcome(Ok, f, Append(log, <<"read">> \o backup_path), used)
    ELSE restore_done(restore_loop(f, 1, IF exists(f, backup_path) THEN f[backup_path] ELSE <<>>,
                                   Append(log, <<"read">> \o backup_path)),
                      backup_path, used)

\* lines 599-642
restore_from_backup(f, sEnv, log, used, backup_path) ==
    IF ~exists(f, backup_path) THEN Outcome(Ok, f, log, used)
    ELSE IF sEnv = "absent"
    THEN Outcome(Err("Generic", <<"Could not locate Steam">>), f,
                 Append(log, <<"read">> \o backup_path), used)
    ELSE IF sEnv # "ok" THEN Outcome(Ok, f, Append(log, <<"read">> \o backup_path), used)
    ELSE restore_done(restore_loop(f, 1, f[backup_path],
                                   Append(log, <<"read">> \o backup_path)),
                      backup_path, used)

\* lines 594-597
restore_steam(I, f, sEnv, log, steam) ==
    IF ~steam.ended THEN Waiting(f, log \o steam.log, steam.used)
    ELSE IF steam.res # Ok THEN Outcome(steam.res, f, log \o steam.log, steam.used)
    ELSE IF I.install_dir = None
    THEN Outcome(Err("NoInstallDir", <<>>), f, log \o steam.log, steam.used)
    ELSE restore_from_backup(f, sEnv, log \o steam.log, steam.used,
                             join(Unwrap(I.install_dir), LAUNCH_OPT_BACKUP_FILE))

restore_launch_options(I, f, sEnv, yesno, script) ==
    IF I.hwnd # None
    THEN IF yesno # "Yes" THEN Outcome(Ok, f, << <<"prompt_yes_no", yesno>> >>, 0)
         ELSE restore_steam(I, f, sEnv, << <<"prompt_yes_no", yesno>> >>,
                            ensure_steam_closed(I, script))
    ELSE restore_steam(I, f, sEnv, <<>>, ensure_steam_closed(I, script))

(***************************************************************************)
(* install, post_install, uninstall.                                       *)
(***************************************************************************)
\* lines 377-392: the patched sibling (a failure of apply_patch becomes
\* Error::Generic), the launcher, the launch options
install_patched(I, f, log, install_path, wineEnv, sEnv, yesno, script, denied) ==
    IF join(install_path, FUNNY_HONEY) \in denied
    THEN Outcome(Err("Generic", <<"PermissionDenied">>), f,
                 Append(log, <<"write_failed">> \o join(install_path, FUNNY_HONEY)), 0)
    ELSE IF join(install_path, LAUNCHER_EXE) \in denied
    THEN Outcome(PermissionDenied,
                 apply_patch(f, f[join(install_path, MAIN_EXE_STEAM)],
                             join(install_path, FUNNY_HONEY)),
                 log \o << <<"write">> \o join(install_path, FUNNY_HONEY),
                           <<"write_failed">> \o join(install_path, LAUNCHER_EXE) >>, 0)
    ELSE WithLog(setup_launch_options(I,
                     write(apply_patch(f, f[join(install_path, MAIN_EXE_STEAM)],
                                       join(install_path, FUNNY_HONEY)),
                           join(install_path, LAUNCHER_EXE), LAUNCHER_BYTES),
                     wineEnv, sEnv, yesno, script, denied),
                 log \o << <<"write">> \o join(install_path, FUNNY_HONEY),
                           <<"write">> \o join(install_path, LAUNCHER_EXE) >>)

\* lines 368-375
install_verified(I, f, log, install_path, verified, wineEnv, sEnv, yesno, script, denied) ==
    IF verified # Ok
    THEN Outcome(Err("VerificationError",
                     <<"installer.error_verification_body", MAIN_EXE_STEAM>>
                     \o verified.msg),
                 f, log, 0)
    ELSE install_patched(I, f, log, install_path, wineEnv, sEnv, yesno, script, denied)

\* an install that patches on both Steam-family channels
install_channel_global_patched(I, f, log, wineEnv, sEnv, yesno, script, denied) ==
    IF I.game_version = Some("DMM") THEN Outcome(Ok, f, log, 0)
    ELSE IF I.game_version = None
    THEN Outcome(Err("IoError", <<"Could not find a valid game executable.">>), f, log, 0)
    ELSE install_verified(I, f,
             Append(log, <<"read">> \o join(Unwrap(I.install_dir), MAIN_EXE_STEAM)),
             Unwrap(I.install_dir),
             verify_file_hash(f, join(Unwrap(I.install_dir), MAIN_EXE_STEAM),
                              EXPECTED_ORIGINAL_HASH),
             wineEnv, sEnv, yesno, script, denied)

\* lines 357-400
install_channel(I, f, log, wineEnv, sEnv, yesno, script, denied) ==
    IF I.game_version \in {Some("DMM"), Some("SteamGlobal")} THEN Outcome(Ok, f, log, 0)
    ELSE IF I.game_version = None
    THEN Outcome(Err("IoError", <<"Could not find a valid game executable.">>), f, log, 0)
    ELSE install_verified(I, f,
             Append(log, <<"read">> \o join(Unwrap(I.install_dir), MAIN_EXE_STEAM)),
             Unwrap(I.install_dir),
             verify_file_hash(f, join(Unwrap(I.install_dir), MAIN_EXE_STEAM),
                              EXPECTED_ORIGINAL_HASH),
             wineEnv, sEnv, yesno, script, denied)

\* lines 346-355
install_payload(I, f, initial_dll_path, wineEnv, sEnv, yesno, script, denied) ==
    IF initial_dll_path = None THEN Outcome(Err("NoInstallDir", <<>>), f, <<>>, 0)
    ELSE IF Unwrap(initial_dll_path) \in denied
    THEN Outcome(PermissionDenied, f,
                 << <<"write_failed">> \o Unwrap(initial_dll_path) >>, 0)
    ELSE install_channel(I, write(f, Unwrap(initial_dll_path), HACHIMI_DLL),
                         << <<"write">> \o Unwrap(initial_dll_path) >>,
                         wineEnv, sEnv, yesno, script, denied)

\* denied: the paths whose creation or writing the file system refuses
\* during this call
install(I, f, wineEnv, sEnv, yesno, script, denied) ==
    install_payload(I, f, get_current_target_path(I), wineEnv, sEnv, yesno, script, denied)

\* lines 656-709: reg is DevOverrideEnable; regOpen tells whether the
\* registry key opens, okcancel is the answer to the OK/Cancel prompt
post_install_dotlocal(f, path, reg, regOpen, okcancel) ==
    IF ~regOpen
    THEN [res |-> Ok, fs |-> write(f, path, CELLAR_DLL),
          log |-> << <<"write">> \o path, <<"message", "failed_open_ifeo">> >>,
          registry |-> reg]
    ELSE IF reg = 0
    THEN IF okcancel = "Ok"
         THEN [res |-> Ok, fs |-> write(f, path, CELLAR_DLL),
               log |-> << <<"write">> \o path, <<"prompt_ok_cancel", okcancel>>,
                          <<"registry_set">>, <<"message", "restart_to_apply">> >>,
               registry |-> 1]
         ELSE [res |-> Ok, fs |-> write(f, path, CELLAR_DLL),
               log |-> << <<"write">> \o path, <<"prompt_ok_cancel", okcancel>> >>,
               registry |-> reg]
    ELSE [res |-> Ok, fs |-> write(f, path, CELLAR_DLL),
          log |-> << <<"write">> \o path >>, registry |-> reg]

\* a relocation that copies the shadow copy and leaves it in its place
post_install_shim_keeping_shadow(f, dest_dll, src_dll, reg) ==
    IF exists(f, src_dll)
    THEN [res |-> Ok, fs |-> write(f, dest_dll, f[src_dll]),
          log |-> << <<"write">> \o dest_dll >>, registry |-> reg]
    ELSE [res |-> Ok, fs |-> f, log |-> <<>>, registry |-> reg]

\* lines 712-719
post_install_shim(f, dest_dll, src_dll, reg) ==
    IF exists(f, src_dll)
    THEN [res |-> Ok, fs |-> remove_file(write(f, dest_dll, f[src_dll]), src_dll),
          log |-> << <<"write">> \o dest_dll, <<"remove">> \o src_dll >>,
          registry |-> reg]
    ELSE [res |-> Ok, fs |-> f, log |-> <<>>, registry |-> reg]

post_install(I, f, reg, regOpen, okcancel) ==
    IF get_install_method(I, I.target) = "Direct"
    THEN [res |-> Ok, fs |-> f, log |-> <<>>, registry |-> reg]
    ELSE IF I.install_dir = None
    THEN [res |-> Err("NoInstallDir", <<>>), fs |-> f, log |-> <<>>, registry |-> reg]
    ELSE IF get_install_method(I, I.target) = "DotLocal"
    THEN post_install_dotlocal(f,
             join(parent(Unwrap(get_current_target_path(I))), "apphelp.dll"),
             reg, regOpen, okcancel)
    ELSE post_install_shim(f, Unwrap(get_dest_plugin_path(I)),
                           Unwrap(get_src_plugin_path(I)), reg)

remove_if_exists(f, p) == IF exists(f, p) THEN remove_file(f, p) ELSE f
removal_log(f, p) == IF exists(f, p) THEN << <<"remove">> \o p >> ELSE <<>>
\* `_ = std::fs::remove_file(p)`: the removal is tried whether or not the
\* file is there, and its error is dropped
ignored_removal_log(f, p) ==
    IF exists(f, p) THEN << <<"remove">> \o p >> ELSE << <<"remove_failed">> \o p >>

\* a reversal that moves the relocated library back over a shadow copy
uninstall_shim_overwriting(f, dest_dll, src_dll) ==
    IF ~exists(f, dest_dll)
    THEN [res |-> Err("IoError", <<"NotFound">>), fs |-> f, log |-> <<>>]
    ELSE [res |-> Ok, fs |-> remove_file(write(f, src_dll, f[dest_dll]), dest_dll),
          log |-> << <<"write">> \o src_dll, <<"remove">> \o dest_dll >>]

\* lines 730-747: the method-specific reversal, after the payload at path
\* has been removed
uninstall_shim(f, dest_dll, src_dll) ==
    IF exists(f, src_dll) THEN [res |-> Ok, fs |-> f, log |-> <<>>]
    ELSE IF ~exists(f, dest_dll)
    THEN [res |-> Err("IoError", <<"NotFound">>), fs |-> f, log |-> <<>>]
    ELSE [res |-> Ok, fs |-> remove_file(write(f, src_dll, f[dest_dll]), dest_dll),
          log |-> << <<"write">> \o src_dll, <<"remove">> \o dest_dll >>]

uninstall_method(I, f, path) ==
    IF get_install_method(I, I.target) = "DotLocal"
    THEN [res |-> Ok, fs |-> remove_if_exists(f, join(parent(path), "apphelp.dll")),
          log |-> ignored_removal_log(f, join(parent(path), "apphelp.dll"))]
    ELSE IF get_install_method(I, I.target) = "PluginShim"
    THEN uninstall_shim(f, Unwrap(get_dest_plugin_path(I)), Unwrap(get_src_plugin_path(I)))
    ELSE [res |-> Ok, fs |-> f, log |-> <<>>]

\* lines 750-758
uninstall_steam(I, f, log, install_path, sEnv, yesno, script) ==
    WithLog(restore_launch_options(I,
                remove_if_exists(remove_if_exists(f, join(install_path, FUNNY_HONEY)),
                                 join(install_path, LAUNCHER_EXE)),
                sEnv, yesno, script),
            log \o removal_log(f, join(install_path, FUNNY_HONEY))
                \o removal_log(f, join(install_path, LAUNCHER_EXE)))

\* lines 730-761
uninstall_reversed(I, m, log, sEnv, yesno, script) ==
    IF m.res # Ok THEN Outcome(m.res, m.fs, log \o m.log, 0)
    ELSE IF I.game_version # Some("Steam") THEN Outcome(Ok, m.fs, log \o m.log, 0)
    ELSE uninstall_steam(I, m.fs, log \o m.log, Unwrap(I.install_dir), sEnv, yesno, script)

\* an uninstall that goes on when the payload is not there
uninstall_payload_lenient(I, f, path, sEnv, yesno, script) ==
    IF path = None THEN Outcome(Err("NoInstallDir", <<>>), f, <<>>, 0)
    ELSE uninstall_reversed(I, uninstall_method(I, remove_if_exists(f, Unwrap(path)),
                                                Unwrap(path)),
                            ignored_removal_log(f, Unwrap(path)), sEnv, yesno, script)

\* lines 727-728
uninstall_payload(I, f, path, sEnv, yesno, script) ==
    IF path = None THEN Outcome(Err("NoInstallDir", <<>>), f, <<>>, 0)
    ELSE IF ~exists(f, Unwrap(path))
    THEN Outcome(Err("IoError", <<"NotFound">>), f, <<>>, 0)
    ELSE uninstall_reversed(I, uninstall_method(I, remove_file(f, Unwrap(path)), Unwrap(path)),
                            << <<"remove">> \o Unwrap(path) >>, sEnv, yesno, script)

uninstall(I, f, sEnv, yesno, script) ==
    uninstall_payload(I, f, get_current_target_path(I), sEnv, yesno, script)

(***************************************************************************)
(* Selection of the install root.                                          *)
(***************************************************************************)
new(target, custom_target) ==
    [dmm_install_dir |-> None, steam_install_dir |-> None,
     steam_global_install_dir |-> None, install_dir |-> None, game_version |-> None,
     target |-> target, custom_target |-> custom_target, hwnd |-> None]

\* a selection that drops the selected root when the directory matches no
\* channel
set_install_dir_clearing(I, f, dir) ==
    LET version == detect_version_from_dir(f, dir)
    IN  IF version = None
        THEN [res |-> Err("InvalidInstallDir", <<>>),
              inst |-> [I EXCEPT !.install_dir = None, !.game_version = None]]
        ELSE LET I1 == [I EXCEPT !.install_dir = Some(dir), !.game_version = version]
             IN  [res |-> Ok,
                  inst |-> IF version = Some("DMM")
                           THEN [I1 EXCEPT !.dmm_install_dir = Some(dir)]
                           ELSE IF version = Some("Steam")
                           THEN [I1 EXCEPT !.steam_install_dir = Some(dir)]
                           ELSE [I1 EXCEPT !.steam_global_install_dir = Some(dir)]]

\* lines 61-75
set_install_dir(I, f, dir) ==
    LET version == detect_version_from_dir(f, dir)
    IN  IF version = None THEN [res |-> Err("InvalidInstallDir", <<>>), inst |-> I]
        ELSE LET I1 == [I EXCEPT !.install_dir = Some(dir), !.game_version = version]
             IN  [res |-> Ok,
                  inst |-> IF version = Some("DMM")
                           THEN [I1 EXCEPT !.dmm_install_dir = Some(dir)]
                           ELSE IF version = Some("Steam")
                           THEN [I1 EXCEPT !.steam_install_dir = Some(dir)]
                           ELSE [I1 EXCEPT !.steam_global_install_dir = Some(dir)]]

set_game_version(I, version) ==
    [I EXCEPT !.game_version = Some(version),
              !.install_dir = IF version = "DMM" THEN I.dmm_install_dir
                              ELSE IF version = "Steam" THEN I.steam_install_dir
                              ELSE I.steam_global_install_dir]

\* Path::is_dir: a directory is there when a file stands below it
is_dir(f, dir) ==
    \E p \in DOMAIN f : Len(p) > Len(dir) /\ SubSeq(p, 1, Len(dir)) = dir

\* lines 136-179: the DMM launcher's dmmgame.cnf, here the product id of its
\* game entry followed by the components of detail.path
DmmConfigPath == <<"AppData", "dmmgameplayer5", "dmmgame.cnf">>
detect_dmm_install_dir(f) ==
    IF ~exists(f, DmmConfigPath) THEN None
    ELSE IF f[DmmConfigPath] = <<>> \/ Head(f[DmmConfigPath]) # "umamusume" THEN None
    ELSE IF is_dir(f, Tail(f[DmmConfigPath])) THEN Some(Tail(f[DmmConfigPath]))
    ELSE None

\* lines 181-200: Steam located, the app in a library of its, and the
\* marker executable in the app's directory
detect_steam_install_dir(f, sEnv) ==
    IF sEnv = "absent" THEN None
    ELSE IF exists(f, join(SteamGameDir, MAIN_EXE_STEAM)) THEN Some(SteamGameDir)
    ELSE None

\* lines 202-221
detect_steam_global_install_dir(f, sEnv) ==
    IF sEnv = "absent" THEN None
    ELSE IF exists(f, join(SteamGlobalDir, MAIN_EXE_GLOBAL)) THEN Some(SteamGlobalDir)
    ELSE None

\* a discovery that tries the Steam probe before the DMM probe
detect_install_dir_steam_first(I, f, sEnv) ==
    IF detect_steam_install_dir(f, sEnv) # None
    THEN [I EXCEPT !.install_dir = detect_steam_install_dir(f, sEnv),
                   !.game_version = Some("Steam")]
    ELSE IF detect_dmm_install_dir(f) # None
    THEN [I EXCEPT !.install_dir = detect_dmm_install_dir(f), !.game_version = Some("DMM")]
    ELSE IF detect_steam_global_install_dir(f, sEnv) # None
    THEN [I EXCEPT !.install_dir = detect_steam_global_install_dir(f, sEnv),
                   !.game_version = Some("SteamGlobal")]
    ELSE I

\* lines 85-96
detect_install_dir(I, f, sEnv) ==
    IF detect_dmm_install_dir(f) # None
    THEN [I EXCEPT !.install_dir = detect_dmm_install_dir(f), !.game_version = Some("DMM")]
    ELSE IF detect_steam_install_dir(f, sEnv) # None
    THEN [I EXCEPT !.install_dir = detect_steam_install_dir(f, sEnv),
                   !.game_version = Some("Steam")]
    ELSE IF detect_steam_global_install_dir(f, sEnv) # None
    THEN [I EXCEPT !.install_dir = detect_steam_global_install_dir(f, sEnv),
                   !.game_version = Some("SteamGlobal")]
    ELSE I

\* a selection of the first candidate that leaves the channel as it was
select_detected_root_only(I) ==
    IF I.install_dir # None THEN I
    ELSE IF I.dmm_install_dir # None THEN [I EXCEPT !.install_dir = I.dmm_install_dir]
    ELSE IF I.steam_install_dir # None THEN [I EXCEPT !.install_dir = I.steam_install_dir]
    ELSE IF I.steam_global_install_dir # None
    THEN [I EXCEPT !.install_dir = I.steam_global_install_dir]
    ELSE I

\* lines 103-111
select_detected(I) ==
    IF I.install_dir # None THEN I
    ELSE IF I.dmm_install_dir # None THEN set_game_version(I, "DMM")
    ELSE IF I.steam_install_dir # None THEN set_game_version(I, "Steam")
    ELSE IF I.steam_global_install_dir # None THEN set_game_version(I, "SteamGlobal")
    ELSE I

\* lines 98-112
detect_install_dirs(I, f, sEnv) ==
    select_detected([I EXCEPT !.dmm_install_dir = detect_dmm_install_dir(f),
                              !.steam_install_dir = detect_steam_install_dir(f, sEnv),
                              !.steam_global_install_dir =
                                  detect_steam_global_install_dir(f, sEnv)])

(***************************************************************************)
(* Configs the model starts from.  A config is the text of a               *)
(* localconfig.vdf; a value is written here as it stands in the file,      *)
(* escape sequences included.                                              *)
(***************************************************************************)
ValueUnits == { <<"%command%">>, <<BACKSLASH, QUOTE>>, <<BACKSLASH, BACKSLASH>> }

RECURSIVE ValuesUpTo(_)
ValuesUpTo(n) ==
    IF n = 0 THEN { <<>> }
    ELSE LET shorter == ValuesUpTo(n - 1)
         IN  shorter \cup { v \o u : v \in shorter, u \in ValueUnits }

LaunchLine(value) ==
    <<TAB>> \o LAUNCH_OPTIONS_KEY \o <<TAB, TAB, QUOTE>> \o value \o <<QUOTE, NEWLINE>>
OtherKeys ==
    <<TAB, QUOTE, "cloud", QUOTE, LBRACE, QUOTE, "last_sync", QUOTE, SPACE,
      QUOTE, "1", QUOTE, RBRACE, NEWLINE>>
ConfigWith(body) ==
    <<QUOTE, "apps", QUOTE, LBRACE, QUOTE>> \o APP_ID \o <<QUOTE, NEWLINE, LBRACE>>
    \o body \o <<RBRACE, NEWLINE, QUOTE, "730", QUOTE, LBRACE, RBRACE, RBRACE>>
ConfigNoApp == <<QUOTE, "apps", QUOTE, LBRACE, QUOTE, "730", QUOTE, LBRACE, RBRACE, RBRACE>>
ConfigNoKey == ConfigWith(OtherKeys)
ConfigBareValue == ConfigWith(<<TAB>> \o LAUNCH_OPTIONS_KEY \o <<TAB, "0", NEWLINE>>)
ConfigValue(value) == ConfigWith(OtherKeys \o LaunchLine(value))

\* the file system before the installer has run: the three game
\* directories, the Steam executable of the given build, the game's own
\* plugin in the DMM tree, and the given configs (None: no config file)
InitialFs(steam_exe, configs) ==
    LET game == [p \in {join(DmmDir, MAIN_EXE_DMM), join(SteamGlobalDir, MAIN_EXE_GLOBAL),
                        join(SteamGameDir, MAIN_EXE_STEAM),
                        DmmDir \o <<"umamusume_Data", "Plugins", "x86_64", "cri_mana_vpx.dll">>}
                 |-> IF p = join(SteamGameDir, MAIN_EXE_STEAM) THEN steam_exe
                     ELSE IF Len(p) > 2 THEN GAME_PLUGIN ELSE GAME_EXE]
        present == {i \in ProfileIds : configs[i] # None}
    IN  [p \in (DOMAIN game) \cup {config_path(i) : i \in present}
         |-> IF p \in DOMAIN game THEN game[p]
             ELSE Unwrap(configs[CHOOSE i \in present : config_path(i) = p])]

Targets == {"UnityPlayer", "CriManaVpx"}
CustomTargets == {None, Some("version.dll"), Some(MAIN_EXE_STEAM)}
\* the scripts of a Steam check that ends: Steam runs and the user retries
\* until Steam is seen not running or the user cancels (the answer of a
\* poll that sees Steam not running is never asked for)
PollScripts ==
    { script \in UNION {[1..n -> [running : BOOLEAN, answer : {"Retry", "Cancel"}]] :
                         n \in 0..MaxPolls} :
        \A i \in DOMAIN script :
            /\ i < Len(script) => script[i].running /\ script[i].answer = "Retry"
            /\ i = Len(script) => \/ ~script[i].running /\ script[i].answer = "Retry"
                                  \/ script[i].running /\ script[i].answer = "Cancel" }

launch_values(f) ==
    [i \in ProfileIds |->
        IF exists(f, config_path(i)) THEN current_quoted_value(f[config_path(i)], APP_ID)
        ELSE None]

NoOp == [op |-> "new", res |-> Ok, log |-> <<>>]

\* there are configs only where Steam is located and has a userdata directory
InitWith(targets, customs, exes, firstConfigs, otherConfigs, steamEnvs) ==
    /\ \E t \in targets, c \in customs : inst = new(t, c)
    /\ steamEnv \in steamEnvs
    /\ \E exe \in exes,
          first \in IF steamEnv = "ok" THEN firstConfigs ELSE {None},
          others \in [ProfileIds \ {1} -> IF steamEnv = "ok" THEN otherConfigs ELSE {None}] :
          fs = InitialFs(exe, [i \in ProfileIds |-> IF i = 1 THEN first ELSE others[i]])
    /\ registry = 0
    /\ wine \in BOOLEAN
    /\ last = NoOp
    /\ saved = None
    /\ steamRunning = FALSE
    /\ pc = "idle"

\* the life cycle on the patched Steam channel
Init ==
    InitWith(Targets, {None, Some(MAIN_EXE_STEAM)}, {ORIGINAL_EXE, OTHER_BUILD_EXE},
             {None, Some(ConfigNoApp), Some(ConfigNoKey), Some(ConfigValue(<<"%command%">>))},
             {None, Some(ConfigValue(<<"-arg">>))},
             {"ok", "nouserdata", "absent"})

(***************************************************************************)
(* Actions.  What steam.exe is observed to do and what the user answers    *)
(* are inputs of the handler that polls and prompts.                       *)
(***************************************************************************)
Env(name) == [op |-> name, res |-> Ok, log |-> <<>>]
Elsewhere == <<"elsewhere">>

SetHwnd ==
    /\ inst' = [inst EXCEPT !.hwnd = IF inst.hwnd = None THEN Some("hwnd") ELSE None]
    /\ last' = Env("set_hwnd")
    /\ UNCHANGED <<steamRunning, pc, fs, registry, wine, steamEnv, saved>>

SetInstallDirIn(dirs) ==
    \E dir \in dirs :
        \E o \in {set_install_dir(inst, fs, dir)} :
            /\ inst' = o.inst
            /\ last' = [op |-> "set_install_dir", res |-> o.res, log |-> <<dir>>]
            /\ UNCHANGED <<steamRunning, pc, fs, registry, wine, steamEnv, saved>>

SetInstallDir == SetInstallDirIn(Dirs \cup {Elsewhere})
SetInstallDirSteam == SetInstallDirIn({SteamGameDir, Elsewhere})

SetGameVersion ==
    \E version \in {"DMM", "Steam", "SteamGlobal"} :
        /\ inst' = set_game_version(inst, version)
        /\ last' = Env("set_game_version")
        /\ UNCHANGED <<steamRunning, pc, fs, registry, wine, steamEnv, saved>>

\* the inputs a handler can consume: without a UI handle it neither prompts
\* nor polls
Answers(I) == IF I.hwnd = None THEN {"Yes"} ELSE {"Yes", "No"}
Scripts(I, yesno) == IF I.hwnd = None \/ yesno # "Yes" THEN {<<>>} ELSE PollScripts

\* a handler that met the Steam check ran the whole script
ScriptFits(o, script) == o.ended /\ Len(script) = o.used

Wrote(log, path) == \E k \in DOMAIN log : log[k] = <<"write">> \o path
Removed(log, path) == \E k \in DOMAIN log : log[k] = <<"remove">> \o path
BackupPath == join(SteamGameDir, LAUNCH_OPT_BACKUP_FILE)

InstallDenying(refusals) ==
    \E yesno \in Answers(inst) : \E script \in Scripts(inst, yesno) : \E denied \in refusals :
        \E o \in {install(inst, fs, wine, steamEnv, yesno, script, denied)} :
            /\ ScriptFits(o, script)
            /\ fs' = o.fs
            /\ last' = [op |-> "install", res |-> o.res, log |-> o.log]
            /\ saved' = IF Wrote(o.log, BackupPath) THEN Some(launch_values(fs)) ELSE saved
            /\ UNCHANGED <<steamRunning, pc, inst, registry, wine, steamEnv>>

\* an install that the file system refuses nothing
Install == InstallDenying({{}})

\* the files of the Steam root and the configs that install writes
SteamWrites ==
    {join(SteamGameDir, FUNNY_HONEY), join(SteamGameDir, LAUNCHER_EXE), BackupPath}
    \cup {config_path(i) : i \in ProfileIds}
    \cup {SteamGameDir \o <<MAIN_EXE_STEAM \o ".local", "UnityPlayer.dll">>}

\* an install that the file system may refuse one write
InstallFailing == InstallDenying({{}} \cup {{p} : p \in SteamWrites})

PostInstall ==
    \E regOpen \in BOOLEAN, okcancel \in {"Ok", "Cancel"} :
        \E o \in {post_install(inst, fs, registry, regOpen, okcancel)} :
            /\ fs' = o.fs
            /\ registry' = o.registry
            /\ last' = [op |-> "post_install", res |-> o.res, log |-> o.log]
            /\ UNCHANGED <<steamRunning, pc, inst, wine, steamEnv, saved>>

Uninstall ==
    \E yesno \in Answers(inst) : \E script \in Scripts(inst, yesno) :
        \E o \in {uninstall(inst, fs, steamEnv, yesno, script)} :
            /\ ScriptFits(o, script)
            /\ fs' = o.fs
            /\ last' = [op |-> "uninstall", res |-> o.res, log |-> o.log]
            /\ saved' = IF Removed(o.log, BackupPath) THEN None ELSE saved
            /\ UNCHANGED <<steamRunning, pc, inst, registry, wine, steamEnv>>

Next ==
    \/ SetHwnd
    \/ SetInstallDirSteam
    \/ Install
    \/ PostInstall
    \/ Uninstall

Spec == Init /\ [][Next]_vars

\* the launch-option edit over the prior values a config can hold: every
\* value of up to MaxValUnits units, a missing key, an unquoted value, a
\* config without the app block, no config; Steam located or not
InitEdit ==
    InitWith({"UnityPlayer"}, {None}, {ORIGINAL_EXE},
             {None, Some(ConfigNoApp), Some(ConfigNoKey), Some(ConfigBareValue)}
                 \cup {Some(ConfigValue(v)) : v \in ValuesUpTo(MaxValUnits)},
             {None, Some(ConfigValue(<<"-arg">>))},
             {"ok", "nouserdata", "absent"})

NextEdit ==
    \/ SetHwnd
    \/ SetInstallDirSteam
    \/ Install
    \/ Uninstall

SpecEdit == InitEdit /\ [][NextEdit]_vars

\* the life cycle on the patched Steam channel when the file system may
\* refuse a write of install, the installer run without a UI handle (it
\* neither prompts nor polls)
InitFail ==
    InitWith({"UnityPlayer"}, {None}, {ORIGINAL_EXE, OTHER_BUILD_EXE},
             {None, Some(ConfigNoApp), Some(ConfigNoKey), Some(ConfigBareValue),
              Some(ConfigValue(<<"%command%">>)), Some(ConfigValue(<<BACKSLASH, QUOTE>>))},
             {None, Some(ConfigValue(<<"-arg">>))},
             {"ok", "nouserdata", "absent"})

\* utils::apply_patch called on its own, with the Steam executable's bytes
\* and the place of the patched sibling
ApplyPatch ==
    /\ exists(fs, join(SteamGameDir, MAIN_EXE_STEAM))
    /\ fs' = apply_patch(fs, fs[join(SteamGameDir, MAIN_EXE_STEAM)],
                         join(SteamGameDir, FUNNY_HONEY))
    /\ last' = [op |-> "apply_patch", res |-> Ok,
                log |-> << join(SteamGameDir, MAIN_EXE_STEAM),
                           join(SteamGameDir, FUNNY_HONEY) >>]
    /\ UNCHANGED <<steamRunning, pc, inst, registry, wine, steamEnv, saved>>

NextFail ==
    \/ SetInstallDirSteam
    \/ InstallFailing
    \/ Uninstall
    \/ ApplyPatch

SpecFail == InitFail /\ [][NextFail]_vars

(***************************************************************************)
(* The scanners on their own: the first profile's config holds a text      *)
(* drawn from a bounded set, and a step applies a scanner to it.           *)
(***************************************************************************)
RECURSIVE TextsOver(_, _)
TextsOver(alphabet, n) ==
    IF n = 0 THEN { <<>> }
    ELSE LET shorter == TextsOver(alphabet, n - 1)
         IN  shorter \cup { Append(t, c) : t \in shorter, c \in alphabet }

\* what stands before the braces: no key, the key, another app's key, the
\* key after other text, the key a second time after a first block
KeyPrefixes ==
    { <<>>,
      <<QUOTE>> \o APP_ID \o <<QUOTE>>,
      <<QUOTE, "730", QUOTE>>,
      <<"apps", LBRACE, QUOTE>> \o APP_ID \o <<QUOTE, NEWLINE>>,
      <<QUOTE>> \o APP_ID \o <<QUOTE, LBRACE, RBRACE, QUOTE>> \o APP_ID \o <<QUOTE>> }
BraceTexts == { k \o b : k \in KeyPrefixes, b \in TextsOver({LBRACE, RBRACE, "x"}, MaxBraces) }
ValueTexts == TextsOver({QUOTE, BACKSLASH, SPACE, "x"}, MaxText)

ScannedPath == config_path(1)

InitScan ==
    /\ inst = new("UnityPlayer", None)
    /\ \E text \in BraceTexts \cup ValueTexts : fs = [p \in {ScannedPath} |-> text]
    /\ registry = 0
    /\ wine = FALSE
    /\ steamEnv = "ok"
    /\ last = NoOp
    /\ saved = None
    /\ steamRunning = FALSE
    /\ pc = "idle"

FindVdfAppRange ==
    /\ last' = [op |-> "find_vdf_app_range",
                res |-> find_vdf_app_range(fs[ScannedPath], APP_ID),
                log |-> << <<"read">> \o ScannedPath >>]
    /\ UNCHANGED <<steamRunning, pc, inst, fs, registry, wine, steamEnv, saved>>

FindVdfValueRange ==
    /\ last' = [op |-> "find_vdf_value_range",
                res |-> find_vdf_value_range(fs[ScannedPath]),
                log |-> << <<"read">> \o ScannedPath >>]
    /\ UNCHANGED <<steamRunning, pc, inst, fs, registry, wine, steamEnv, saved>>

\* the text taken as a raw value: escaped, put between quotes as lines 548
\* and 565 do, and scanned
EscapeVdfValue ==
    /\ last' = [op |-> "escape_vdf_value",
                res |-> find_vdf_value_range(<<QUOTE>> \o escape_vdf_value(fs[ScannedPath])
                                             \o <<QUOTE>>),
                log |-> << escape_vdf_value(fs[ScannedPath]) >>]
    /\ UNCHANGED <<steamRunning, pc, inst, fs, registry, wine, steamEnv, saved>>

NextScan ==
    \/ FindVdfAppRange
    \/ FindVdfValueRange
    \/ EscapeVdfValue

SpecScan == InitScan /\ [][NextScan]_vars

(***************************************************************************)
(* The selection of the install root: the three game directories with      *)
(* their marker executables, a fourth directory holding any of the         *)
(* markers, the DMM launcher's config present or not, Steam located or     *)
(* not.  A marker executable may disappear at any time.                    *)
(***************************************************************************)
Markers == {MAIN_EXE_DMM, MAIN_EXE_STEAM, MAIN_EXE_GLOBAL}
AllDirs == Dirs \cup {Elsewhere}

InitSelect ==
    /\ inst = new("UnityPlayer", None)
    /\ \E dmm \in BOOLEAN, extra \in SUBSET Markers :
           \E base \in {InitialFs(ORIGINAL_EXE, [i \in ProfileIds |-> None])} :
               fs = [p \in (DOMAIN base)
                            \cup {join(Elsewhere, m) : m \in extra}
                            \cup (IF dmm THEN {DmmConfigPath} ELSE {})
                     |-> IF p \in DOMAIN base THEN base[p]
                         ELSE IF p = DmmConfigPath THEN <<"umamusume">> \o DmmDir
                         ELSE GAME_EXE]
    /\ registry = 0
    /\ wine = FALSE
    /\ steamEnv \in {"ok", "absent"}
    /\ last = NoOp
    /\ saved = None
    /\ steamRunning = FALSE
    /\ pc = "idle"

\* the environment: a marker executable is deleted or moved away
RemoveMarker ==
    \E dir \in AllDirs, m \in Markers :
        /\ exists(fs, join(dir, m))
        /\ fs' = remove_file(fs, join(dir, m))
        /\ last' = Env("remove_marker")
        /\ UNCHANGED <<steamRunning, pc, inst, registry, wine, steamEnv, saved>>

DetectVersionFromDir ==
    \E dir \in AllDirs :
        /\ last' = [op |-> "detect_version_from_dir",
                    res |-> detect_version_from_dir(fs, dir), log |-> dir]
        /\ UNCHANGED <<steamRunning, pc, inst, fs, registry, wine, steamEnv, saved>>

GetInstallMethod ==
    \E target \in Targets :
        /\ last' = [op |-> "get_install_method",
                    res |-> get_install_method(inst, target), log |-> <<target>>]
        /\ UNCHANGED <<steamRunning, pc, inst, fs, registry, wine, steamEnv, saved>>

DetectInstallDir ==
    /\ inst' = detect_install_dir(inst, fs, steamEnv)
    /\ last' = Env("detect_install_dir")
    /\ UNCHANGED <<steamRunning, pc, fs, registry, wine, steamEnv, saved>>

DetectInstallDirs ==
    /\ inst' = detect_install_dirs(inst, fs, steamEnv)
    /\ last' = Env("detect_install_dirs")
    /\ UNCHANGED <<steamRunning, pc, fs, registry, wine, steamEnv, saved>>

NextSelect ==
    \/ SetInstallDir
    \/ SetGameVersion
    \/ DetectInstallDir
    \/ DetectInstallDirs
    \/ DetectVersionFromDir
    \/ GetInstallMethod
    \/ RemoveMarker

SpecSelect == InitSelect /\ [][NextSelect]_vars

(***************************************************************************)
(* The life cycle on every channel: the root selected by hand or by        *)
(* discovery, either payload, the installer run without a UI handle.  The  *)
(* game's updater may put the game's own plugin back in its place.         *)
(***************************************************************************)
UPDATED_PLUGIN == <<"bytes:cri_mana_vpx.dll(game, updated)">>
GamePluginPath == DmmDir \o <<"umamusume_Data", "Plugins", "x86_64", "cri_mana_vpx.dll">>

InitChannel ==
    /\ \E t \in Targets : inst = new(t, None)
    /\ \E dmm \in BOOLEAN :
           \E base \in {InitialFs(ORIGINAL_EXE, [i \in ProfileIds |-> None])} :
               fs = [p \in (DOMAIN base) \cup (IF dmm THEN {DmmConfigPath} ELSE {})
                     |-> IF p \in DOMAIN base THEN base[p] ELSE <<"umamusume">> \o DmmDir]
    /\ registry = 0
    /\ wine = FALSE
    /\ steamEnv \in {"nouserdata", "absent"}
    /\ last = NoOp
    /\ saved = None
    /\ steamRunning = FALSE
    /\ pc = "idle"

\* the environment: the game's updater writes the game's plugin anew
GameUpdate ==
    /\ ~exists(fs, GamePluginPath)
    /\ fs' = write(fs, GamePluginPath, UPDATED_PLUGIN)
    /\ last' = Env("game_update")
    /\ UNCHANGED <<steamRunning, pc, inst, registry, wine, steamEnv, saved>>

NextChannel ==
    \/ SetInstallDir
    \/ SetGameVersion
    \/ DetectInstallDir
    \/ DetectInstallDirs
    \/ Install
    \/ PostInstall
    \/ Uninstall
    \/ GameUpdate

SpecChannel == InitChannel /\ [][NextChannel]_vars

(***************************************************************************)
(* ensure_steam_closed line by line (lines 324-343): the call, the poll of *)
(* steam.exe that is the loop's condition, the Retry/Cancel prompt, the    *)
(* sleep.  steam.exe exits and starts as it will.                          *)
(***************************************************************************)
\* a prompt whose Retry ends the call
prompt_result_retry_returns(answer) ==
    IF answer = "Cancel"
    THEN [pc |-> "returned",
          res |-> Err("Generic", <<"Steam is running. Cannot modify configuration.">>)]
    ELSE [pc |-> "returned", res |-> Ok]

\* lines 337-339
prompt_result(answer) ==
    IF answer = "Cancel"
    THEN [pc |-> "returned",
          res |-> Err("Generic", <<"Steam is running. Cannot modify configuration.">>)]
    ELSE [pc |-> "sleep", res |-> Ok]

InitPoll ==
    /\ \E t \in Targets : inst = new(t, None)
    /\ fs = InitialFs(ORIGINAL_EXE, [i \in ProfileIds |-> None])
    /\ registry = 0
    /\ wine \in BOOLEAN
    /\ steamEnv \in {"ok", "nouserdata", "absent"}
    /\ last = NoOp
    /\ saved = None
    /\ steamRunning \in BOOLEAN
    /\ pc = "idle"

\* line 325: without a UI handle the call returns at once
CallEnsureSteamClosed ==
    /\ pc = "idle"
    /\ pc' = IF inst.hwnd = None THEN "returned" ELSE "poll"
    /\ last' = [op |-> "ensure_steam_closed", res |-> Ok, log |-> <<>>]
    /\ UNCHANGED <<inst, fs, registry, wine, steamEnv, saved, steamRunning>>

\* line 327: the loop's condition
PollSteam ==
    /\ pc = "poll"
    /\ pc' = IF steamRunning THEN "prompt" ELSE "returned"
    /\ last' = [op |-> "ensure_steam_closed", res |-> Ok,
                log |-> << <<"poll", IF steamRunning THEN "running" ELSE "not running">> >>]
    /\ UNCHANGED <<inst, fs, registry, wine, steamEnv, saved, steamRunning>>

AnswerPrompt(answer) ==
    /\ pc = "prompt"
    /\ pc' = prompt_result(answer).pc
    /\ last' = [op |-> "ensure_steam_closed", res |-> prompt_result(answer).res,
                log |-> << <<"prompt_retry_cancel", answer>> >>]
    /\ UNCHANGED <<inst, fs, registry, wine, steamEnv, saved, steamRunning>>

AnswerRetryCancel == \E answer \in {"Retry", "Cancel"} : AnswerPrompt(answer)

\* line 340
Sleep ==
    /\ pc = "sleep"
    /\ pc' = "poll"
    /\ UNCHANGED <<inst, fs, registry, wine, steamEnv, last, saved, steamRunning>>

\* the caller goes on, or fails, with the result
Return ==
    /\ pc = "returned"
    /\ pc' = "idle"
    /\ UNCHANGED <<inst, fs, registry, wine, steamEnv, last, saved, steamRunning>>

\* the environment: steam.exe exits or is started
SteamExits ==
    /\ steamRunning
    /\ steamRunning' = FALSE
    /\ UNCHANGED <<inst, fs, registry, wine, steamEnv, last, saved, pc>>

SteamStarts ==
    /\ ~steamRunning
    /\ steamRunning' = TRUE
    /\ UNCHANGED <<inst, fs, registry, wine, steamEnv, last, saved, pc>>

\* the UI handle is set between calls
NextPoll ==
    \/ pc = "idle" /\ SetHwnd
    \/ CallEnsureSteamClosed
    \/ PollSteam
    \/ AnswerRetryCancel
    \/ Sleep
    \/ Return
    \/ SteamExits
    \/ SteamStarts

SpecPoll == InitPoll /\ [][NextPoll]_vars

\* the thread that runs the loop is scheduled, and its sleep ends
SpecPollFair == InitPoll /\ [][NextPoll]_vars /\ WF_vars(PollSteam) /\ WF_vars(Sleep)

(***************************************************************************)
(* Several Steam user profiles: every profile's config may hold no app     *)
(* block, no key, a plain value, the override an install under Wine        *)
(* writes, or an older value that names the patched executable.  The       *)
(* installer is run without a UI handle.                                   *)
(***************************************************************************)
ProfileValues ==
    { <<"%command%">>,
      <<FUNNY_HONEY, SPACE, "-old">>,
      <<"cp", SPACE, "-f", SPACE, FUNNY_HONEY, SPACE, MAIN_EXE_STEAM, SPACE, "&&", SPACE,
        "%command%">> }

InitProfiles ==
    InitWith({"UnityPlayer"}, {None}, {ORIGINAL_EXE},
             {None, Some(ConfigNoApp), Some(ConfigNoKey)}
                 \cup {Some(ConfigValue(v)) : v \in ProfileValues},
             {None, Some(ConfigNoApp)} \cup {Some(ConfigValue(v)) : v \in ProfileValues},
             {"ok"})

NextProfiles ==
    \/ SetInstallDirSteam
    \/ Install
    \/ Uninstall

SpecProfiles == InitProfiles /\ [][NextProfiles]_vars

(***************************************************************************)
(* Notions the properties are stated in.                                   *)
(***************************************************************************)
SteamExePath == join(SteamGameDir, MAIN_EXE_STEAM)
IsConfigPath(p) == \E i \in ProfileIds : p = config_path(i)
WroteConfig(log) == \E i \in ProfileIds : Wrote(log, config_path(i))
ReadConfig(log) == \E i \in ProfileIds, k \in DOMAIN log : log[k] = <<"read">> \o config_path(i)

\* the override the tool writes for the Steam root, as it stands in a config
Override(wineEnv) ==
    <<QUOTE>>
    \o escape_vdf_value(get_launch_command([install_dir |-> Some(SteamGameDir)], wineEnv).cmd)
    \o <<QUOTE>>
HoldsOverride(f, i) == launch_values(f)[i] \in {Some(Override(TRUE)), Some(Override(FALSE))}

\* a LaunchOptions value, an absent key counting as the empty value
ValueOrEmpty(v) == IF v = None THEN <<QUOTE, QUOTE>> ELSE Unwrap(v)

\* the selected channel's main executable
MainExePath(I) == join(Unwrap(I.install_dir), main_exe_name(I.game_version))

(***************************************************************************)
(* C1.  Round trip on the patched Steam channel: when an install has       *)
(* rewritten LaunchOptions and written the backup file, an uninstall that  *)
(* goes through (prompts answered Yes, Steam not running, backup file      *)
(* deleted) leaves every profile's LaunchOptions value equal to the value  *)
(* it had before that install, for both launch commands.                   *)
(***************************************************************************)
C1_RoundTripRestores ==
    [][ (/\ saved # None
         /\ last'.op = "uninstall"
         /\ last'.res = Ok
         /\ Removed(last'.log, BackupPath))
        => \A i \in ProfileIds :
               ValueOrEmpty(launch_values(fs')[i]) = ValueOrEmpty(Unwrap(saved)[i]) ]_vars

(***************************************************************************)
(* C2.  Backup-file invariant: the backup file exists if and only if some  *)
(* config's LaunchOptions holds the override written by the tool; the      *)
(* backup is never deleted while the override is still in the config.      *)
(***************************************************************************)
C2_BackupIffOverride ==
    exists(fs, BackupPath) <=> \E i \in ProfileIds : HoldsOverride(fs, i)

C4_MainExeNeverWritten ==
    (last.op \in {"install", "post_install"} /\ inst.install_dir # None)
    => ~Wrote(last.log, MainExePath(inst))

(***************************************************************************)
(* C5.  Every write of a localconfig.vdf comes after a poll of steam.exe   *)
(* that saw it not running, with no later poll that saw it running,        *)
(* whether or not a UI handle is present.                                  *)
(***************************************************************************)
C5_PolledBeforeConfigWrite ==
    \A k \in DOMAIN last.log :
        (Head(last.log[k]) = "write" /\ IsConfigPath(Tail(last.log[k])))
        => \E j \in 1..(k - 1) :
               /\ last.log[j] = <<"poll", "not running">>
               /\ \A m \in (j + 1)..(k - 1) : last.log[m] # <<"poll", "running">>

(***************************************************************************)
(* C6.  Without a UI handle nothing that is guarded by a prompt is carried *)
(* out: no config is rewritten or restored unless a Yes/No prompt was      *)
(* answered Yes before.                                                    *)
(***************************************************************************)
C6_NoAutoAcceptWithoutHwnd ==
    inst.hwnd = None
    => \A k \in DOMAIN last.log :
           (Head(last.log[k]) = "write" /\ IsConfigPath(Tail(last.log[k])))
           => \E j \in 1..(k - 1) : last.log[j] = <<"prompt_yes_no", "Yes">>

(***************************************************************************)
(* The LaunchOptions value of a config, located by the rules of the file   *)
(* format rather than by the scanner: the opening quote is the first       *)
(* character after the key that is not whitespace, the closing quote the   *)
(* first quote after it that an even number of backslashes precedes.       *)
(* Positions are 1-based.                                                  *)
(***************************************************************************)
APP_KEY == <<QUOTE>> \o APP_ID \o <<QUOTE>>
KeyEnd(c) == Unwrap(Find(c, LAUNCH_OPTIONS_KEY)) + Len(LAUNCH_OPTIONS_KEY)
\* the first position from k on that holds no whitespace, 0 if there is none
RECURSIVE FirstNonWhitespace(_, _)
FirstNonWhitespace(c, k) ==
    IF k > Len(c) THEN 0
    ELSE IF is_whitespace(c[k]) THEN FirstNonWhitespace(c, k + 1)
    ELSE k
\* the number of backslashes that stand immediately before position b
RECURSIVE BackslashesBefore(_, _)
BackslashesBefore(c, b) ==
    IF b > 1 /\ c[b - 1] = BACKSLASH THEN 1 + BackslashesBefore(c, b - 1) ELSE 0
IsCloseQuote(c, b) == c[b] = QUOTE /\ BackslashesBefore(c, b) % 2 = 0
\* the first closing quote from position b on, 0 if there is none
RECURSIVE FirstCloseQuote(_, _)
FirstCloseQuote(c, b) ==
    IF b > Len(c) THEN 0
    ELSE IF IsCloseQuote(c, b) THEN b
    ELSE FirstCloseQuote(c, b + 1)
OpenQuote(c) == FirstNonWhitespace(c, KeyEnd(c) + 1)
CloseQuoteAfter(c, a) == FirstCloseQuote(c, a + 1)
QuotedFrom(c, a) == a # 0 /\ c[a] = QUOTE /\ CloseQuoteAfter(c, a) # 0
HasQuotedValue(c) ==
    /\ Contains(c, APP_KEY)
    /\ Contains(c, LAUNCH_OPTIONS_KEY)
    /\ QuotedFrom(c, OpenQuote(c))
\* the characters between the quotes, as they stand in the file
InnerFrom(c, a) == SubSeq(c, a + 1, CloseQuoteAfter(c, a) - 1)
PriorInner(c) == InnerFrom(c, OpenQuote(c))

\* a value with its escape sequences \\ and \" decoded
RECURSIVE Unescape(_)
Unescape(v) ==
    IF v = <<>> THEN <<>>
    ELSE IF Head(v) = BACKSLASH /\ Len(v) >= 2 THEN <<v[2]>> \o Unescape(Tail(Tail(v)))
    ELSE <<Head(v)>> \o Unescape(Tail(v))

\* the two overrides for the Steam root, character by character
WineOverride ==
    <<QUOTE, "cp", SPACE, "-f", SPACE, "FunnyHoney.exe", SPACE,
      "UmamusumePrettyDerby_Jpn.exe", SPACE, "&&", SPACE, "%command%", QUOTE>>
LauncherOverride ==
    <<QUOTE, BACKSLASH, QUOTE, "steam", BACKSLASH, BACKSLASH, "hachimi_launcher.exe",
      BACKSLASH, QUOTE, SPACE, "%command%", QUOTE>>

LauncherPath == join(SteamGameDir, LAUNCHER_EXE)
NoAppBlock(f) ==
    \A i \in ProfileIds : exists(f, config_path(i)) => ~Contains(f[config_path(i)], APP_KEY)
Logged(log, event) == \E k \in DOMAIN log : log[k] = event
SteamRunningError == Err("Generic", <<"Steam is running. Cannot modify configuration.">>)
SteamNotLocatedError == Err("Generic", <<"Could not locate Steam">>)

\* an install step that has rewritten profile i's existing quoted value
EditedValue(i) ==
    /\ last'.op = "install"
    /\ Wrote(last'.log, config_path(i))
    /\ exists(fs, config_path(i))
    /\ HasQuotedValue(fs[config_path(i)])

(***************************************************************************)
(* C7 as stated.  The backup file written by an install that rewrites an   *)
(* existing quoted value holds that value without its quotes and with its  *)
(* escape sequences decoded.                                               *)
(***************************************************************************)
C7_BackupIsDecodedValue ==
    [][ \A i \in ProfileIds :
            EditedValue(i)
            => fs'[BackupPath] = Unescape(PriorInner(fs[config_path(i)])) ]_vars

(***************************************************************************)
(* C7.  The backup file written by an install that rewrites an existing    *)
(* quoted value holds exactly the characters that stood between the        *)
(* value's quotes in the file, escape sequences still encoded; this is the *)
(* decoded value when the prior value has no escape sequence, and for the  *)
(* prior value "%command%" the backup is exactly %command%.                *)
(***************************************************************************)
C7_BackupIsRawValue ==
    [][ \A i \in ProfileIds :
            EditedValue(i)
            => \E inner \in {PriorInner(fs[config_path(i)])} :
                   /\ Wrote(last'.log, BackupPath)
                   /\ fs'[BackupPath] = inner
                   /\ (~Contains(inner, <<BACKSLASH>>) => fs'[BackupPath] = Unescape(inner))
                   /\ (inner = <<"%command%">> => fs'[BackupPath] = <<"%command%">>) ]_vars

\* a backup of a prior value that held an escaped quote
C7_Witness ==
    /\ last.op = "install"
    /\ Wrote(last.log, BackupPath)
    /\ Wrote(last.log, config_path(1))
    /\ saved # None
    /\ Unwrap(saved)[1] = Some(<<QUOTE, BACKSLASH, QUOTE, "%command%", QUOTE>>)
    /\ fs[BackupPath] = <<BACKSLASH, QUOTE, "%command%">>

(***************************************************************************)
(* C8.  An install that rewrites an existing quoted LaunchOptions value    *)
(* leaves the config equal to the original characters before the opening   *)
(* quote, then the new quoted escaped value, then the original characters  *)
(* after the closing quote.                                                *)
(***************************************************************************)
C8_EditChangesOnlyValueSpan ==
    [][ \A i \in ProfileIds :
            EditedValue(i)
            => \E c \in {fs[config_path(i)]} : \E a \in {OpenQuote(c)} :
                   fs'[config_path(i)] =
                       SubSeq(c, 1, a - 1)
                       \o (IF wine THEN WineOverride ELSE LauncherOverride)
                       \o SubSeq(c, CloseQuoteAfter(c, a) + 1, Len(c)) ]_vars

\* the second profile's value rewritten, the first profile's config having
\* an unquoted value
C8_Witness ==
    /\ last.op = "install"
    /\ Wrote(last.log, config_path(2))
    /\ launch_values(fs)[2] = Some(LauncherOverride)
    /\ saved # None
    /\ Unwrap(saved)[2] = Some(<<QUOTE, "-arg", QUOTE>>)

(***************************************************************************)
(* C9 as stated.  When no profile's config holds the app block, an install *)
(* that reaches setup_launch_options writes no config, creates no backup   *)
(* file and returns Ok.                                                    *)
(***************************************************************************)
C9_NoAppBlockIsSuccess ==
    [][ (/\ last'.op = "install"
         /\ Wrote(last'.log, LauncherPath)
         /\ NoAppBlock(fs))
        => /\ ~WroteConfig(last'.log)
           /\ ~Wrote(last'.log, BackupPath)
           /\ last'.res = Ok ]_vars

(***************************************************************************)
(* C9.  When no profile's config holds the app block, an install that      *)
(* reaches setup_launch_options writes no config and creates no backup     *)
(* file; it returns Ok unless Steam cannot be located or the user cancels  *)
(* the Steam-is-running prompt, and then it returns the error of that      *)
(* step.                                                                   *)
(***************************************************************************)
C9_NoAppBlockWritesNothing ==
    [][ (/\ last'.op = "install"
         /\ Wrote(last'.log, LauncherPath)
         /\ NoAppBlock(fs))
        => /\ ~WroteConfig(last'.log)
           /\ ~Wrote(last'.log, BackupPath)
           /\ \A i \in ProfileIds :
                  /\ exists(fs', config_path(i)) <=> exists(fs, config_path(i))
                  /\ exists(fs, config_path(i)) => fs'[config_path(i)] = fs[config_path(i)]
           /\ (exists(fs', BackupPath) <=> exists(fs, BackupPath))
           /\ last'.res = IF steamEnv = "absent" THEN SteamNotLocatedError
                          ELSE IF Logged(last'.log, <<"prompt_retry_cancel", "Cancel">>)
                          THEN SteamRunningError
                          ELSE Ok ]_vars

\* a config without the app block, the prompt answered Yes, Steam seen not
\* running, and nothing written
C9_Witness ==
    /\ last.op = "install"
    /\ last.res = Ok
    /\ Wrote(last.log, LauncherPath)
    /\ exists(fs, config_path(1))
    /\ NoAppBlock(fs)
    /\ Logged(last.log, <<"prompt_yes_no", "Yes">>)
    /\ Logged(last.log, <<"poll", "not running">>)
    /\ Logged(last.log, <<"read">> \o config_path(1))
    /\ ~exists(fs, BackupPath)

(***************************************************************************)
(* C10 as stated.  An uninstall that reaches restore_launch_options with   *)
(* no backup file present returns success and neither reads nor writes a   *)
(* config.                                                                 *)
(***************************************************************************)
C10_NoBackupIsSuccess ==
    [][ (/\ last'.op = "uninstall"
         /\ inst.install_dir # None
         /\ Removed(last'.log, Unwrap(get_current_target_path(inst)))
         /\ ~exists(fs, BackupPath))
        => /\ last'.res = Ok
           /\ ~ReadConfig(last'.log)
           /\ ~WroteConfig(last'.log) ]_vars

(***************************************************************************)
(* C10.  An uninstall that reaches restore_launch_options with no backup   *)
(* file present neither reads nor writes a config and creates no backup    *)
(* file; it returns success unless the user cancels the Steam-is-running   *)
(* prompt, and then it returns the Steam-is-running error.                 *)
(***************************************************************************)
C10_NoBackupTouchesNoConfig ==
    [][ (/\ last'.op = "uninstall"
         /\ inst.install_dir # None
         /\ Removed(last'.log, Unwrap(get_current_target_path(inst)))
         /\ ~exists(fs, BackupPath))
        => /\ ~ReadConfig(last'.log)
           /\ ~WroteConfig(last'.log)
           /\ \A i \in ProfileIds :
                  /\ exists(fs', config_path(i)) <=> exists(fs, config_path(i))
                  /\ exists(fs, config_path(i)) => fs'[config_path(i)] = fs[config_path(i)]
           /\ ~exists(fs', BackupPath)
           /\ last'.res = IF Logged(last'.log, <<"prompt_retry_cancel", "Cancel">>)
                          THEN SteamRunningError
                          ELSE Ok ]_vars

\* the restore confirmed, Steam seen not running, a config with the app
\* block present, and no backup file before or after
C10_Witness ==
    /\ last.op = "uninstall"
    /\ last.res = Ok
    /\ inst.install_dir # None
    /\ Removed(last.log, Unwrap(get_current_target_path(inst)))
    /\ Logged(last.log, <<"prompt_yes_no", "Yes">>)
    /\ Logged(last.log, <<"poll", "not running">>)
    /\ ~Removed(last.log, BackupPath)
    /\ ~exists(fs, BackupPath)
    /\ \E i \in ProfileIds : exists(fs, config_path(i)) /\ Contains(fs[config_path(i)], APP_KEY)

(***************************************************************************)
(* C11.  Installing again is idempotent with respect to the override.  An  *)
(* install met by a config that already holds the override writes neither  *)
(* a config nor the backup file and leaves both as they are; an install    *)
(* that writes the backup file again, after a run that failed between the  *)
(* two writes, writes the value the configs held before the first run; and *)
(* the backup file an install leaves never holds the override itself.      *)
(***************************************************************************)
C11_ReinstallIdempotent ==
    [][ last'.op = "install"
        => /\ (\E i \in ProfileIds : launch_values(fs)[i] = Some(Override(wine)))
              => /\ ~WroteConfig(last'.log)
                 /\ ~Wrote(last'.log, BackupPath)
                 /\ launch_values(fs') = launch_values(fs)
                 /\ exists(fs', BackupPath) <=> exists(fs, BackupPath)
                 /\ exists(fs, BackupPath) => fs'[BackupPath] = fs[BackupPath]
           /\ (saved # None /\ Wrote(last'.log, BackupPath))
              => /\ launch_values(fs) = Unwrap(saved)
                 /\ fs'[BackupPath] = fs[BackupPath]
           /\ exists(fs', BackupPath)
              => <<QUOTE>> \o fs'[BackupPath] \o <<QUOTE>> # Override(wine) ]_vars

\* an install that went through without a write refused, met by the override
\* an earlier install wrote over "%command%", the backup holding that value
C11_Witness ==
    /\ last.op = "install"
    /\ last.res = Ok
    /\ Wrote(last.log, LauncherPath)
    /\ Logged(last.log, <<"read">> \o config_path(1))
    /\ ~WroteConfig(last.log)
    /\ ~Wrote(last.log, BackupPath)
    /\ launch_values(fs)[1] = Some(Override(wine))
    /\ fs[BackupPath] = <<"%command%">>
    /\ saved # None
    /\ Unwrap(saved)[1] = Some(<<QUOTE, "%command%", QUOTE>>)

(***************************************************************************)
(* Braces located by counting rather than by the scanner.  Positions are   *)
(* 1-based.                                                                *)
(***************************************************************************)
\* the position of the first occurrence of pat in c, 0 if there is none
FirstOccurrence(c, pat) ==
    IF \E k \in 1..(Len(c) - Len(pat) + 1) : SubSeq(c, k, k + Len(pat) - 1) = pat
    THEN CHOOSE k \in 1..(Len(c) - Len(pat) + 1) :
             /\ SubSeq(c, k, k + Len(pat) - 1) = pat
             /\ \A j \in 1..(k - 1) : SubSeq(c, j, j + Len(pat) - 1) # pat
    ELSE 0
CountOf(c, ch, a, b) == Cardinality({k \in a..b : c[k] = ch})
\* the brace at q closes the brace at p: as many closing as opening braces
\* in p..q, and in no shorter stretch from p
Closes(c, p, q) ==
    /\ p < q
    /\ CountOf(c, LBRACE, p, q) = CountOf(c, RBRACE, p, q)
    /\ \A r \in p..(q - 1) : CountOf(c, LBRACE, p, r) # CountOf(c, RBRACE, p, r)
\* the block of the app: <<p, q>>, the first opening brace from the first
\* quoted app id on and the brace that closes it; <<0, 0>> if there is none
AppBlock(c) ==
    IF \E k \in {FirstOccurrence(c, APP_KEY)} :
           /\ k # 0
           /\ \E p \in k..Len(c) :
                  /\ c[p] = LBRACE
                  /\ \A r \in k..(p - 1) : c[r] # LBRACE
                  /\ \E q \in p..Len(c) : Closes(c, p, q)
    THEN CHOOSE pq \in (1..Len(c)) \X (1..Len(c)) :
             /\ pq[1] >= FirstOccurrence(c, APP_KEY)
             /\ c[pq[1]] = LBRACE
             /\ \A r \in FirstOccurrence(c, APP_KEY)..(pq[1] - 1) : c[r] # LBRACE
             /\ Closes(c, pq[1], pq[2])
    ELSE <<0, 0>>
\* the deepest nesting of braces within positions a..b
NestingDepth(c, a, b) ==
    LET depths == {CountOf(c, LBRACE, a, r) - CountOf(c, RBRACE, a, r) : r \in a..b}
    IN  CHOOSE d \in depths : \A e \in depths : e <= d

(***************************************************************************)
(* C12.  find_vdf_app_range returns the range strictly between the first   *)
(* opening brace after the first occurrence of the quoted app id and the   *)
(* brace that closes it, however deep the braces between them nest; it     *)
(* returns None when the quoted app id is absent, when no opening brace    *)
(* follows it, and when the braces never balance.                          *)
(***************************************************************************)
C12_AppRangeIsMatchingBlock ==
    last.op = "find_vdf_app_range"
    => \E pq \in {AppBlock(fs[ScannedPath])} :
           last.res = IF pq = <<0, 0>> THEN None ELSE Some(<<pq[1], pq[2] - 1>>)

\* a block found around braces nested three deep
C12_Witness ==
    /\ last.op = "find_vdf_app_range"
    /\ last.res # None
    /\ fs[ScannedPath][Unwrap(last.res)[1]] = LBRACE
    /\ fs[ScannedPath][Unwrap(last.res)[2] + 1] = RBRACE
    /\ NestingDepth(fs[ScannedPath], Unwrap(last.res)[1], Unwrap(last.res)[2] + 1) >= 3

(***************************************************************************)
(* C13.  find_vdf_value_range returns the offsets of the opening quote,    *)
(* the first character that is not whitespace, and of the first closing    *)
(* quote after it that no backslash escapes, a backslash escaping exactly  *)
(* the character after it; it returns None when the first character that   *)
(* is not whitespace is no quote, when the text is empty or all            *)
(* whitespace, and when no unescaped closing quote follows.                *)
(***************************************************************************)
C13_ValueRangeIsQuotedSpan ==
    last.op = "find_vdf_value_range"
    => \E c \in {fs[ScannedPath]} : \E a \in {FirstNonWhitespace(c, 1)} :
           last.res = IF a # 0 /\ c[a] = QUOTE /\ FirstCloseQuote(c, a + 1) # 0
                      THEN Some(<<a - 1, FirstCloseQuote(c, a + 1) - 1>>)
                      ELSE None

\* a value found whose closing quote comes after an escaped quote
C13_Witness ==
    /\ last.op = "find_vdf_value_range"
    /\ fs[ScannedPath] = <<SPACE, QUOTE, BACKSLASH, QUOTE, QUOTE>>
    /\ last.res = Some(<<1, 4>>)

(***************************************************************************)
(* C14.  The install method is a function of the target and the selected   *)
(* channel alone: DotLocal for UnityPlayer on every channel; for           *)
(* CriManaVpx, Direct on Steam and SteamGlobal and PluginShim on DMM.      *)
(***************************************************************************)
C14_MethodTable ==
    (last.op = "get_install_method" /\ inst.game_version # None)
    => last.res = IF last.log = <<"UnityPlayer">> THEN "DotLocal"
                  ELSE IF inst.game_version \in {Some("Steam"), Some("SteamGlobal")}
                  THEN "Direct"
                  ELSE "PluginShim"

\* the method asked for CriManaVpx with the SteamGlobal channel selected
C14_Witness ==
    /\ last.op = "get_install_method"
    /\ last.log = <<"CriManaVpx">>
    /\ inst.game_version = Some("SteamGlobal")
    /\ last.res = "Direct"

\* the channel a marker executable stands for
ChannelOf(m) ==
    IF m = MAIN_EXE_DMM THEN "DMM" ELSE IF m = MAIN_EXE_STEAM THEN "Steam" ELSE "SteamGlobal"
MarkersIn(f, dir) == {m \in Markers : exists(f, join(dir, m))}

(***************************************************************************)
(* C15.  detect_version_from_dir returns the channel of the marker         *)
(* executable when exactly one of the three is a file of the directory,    *)
(* and None when none of them is.                                          *)
(***************************************************************************)
C15_DetectsTheOnlyMarker ==
    last.op = "detect_version_from_dir"
    => /\ \A m \in Markers :
              MarkersIn(fs, last.log) = {m} => last.res = Some(ChannelOf(m))
       /\ MarkersIn(fs, last.log) = {} => last.res = None

\* a directory that holds the SteamGlobal marker alone
C15_Witness ==
    /\ last.op = "detect_version_from_dir"
    /\ last.log = Elsewhere
    /\ MarkersIn(fs, Elsewhere) = {MAIN_EXE_GLOBAL}
    /\ last.res = Some("SteamGlobal")

(***************************************************************************)
(* C19.  After a re-discovery by detect_install_dirs or detect_install_dir *)
(* the selected root is a directory in which detect_version_from_dir       *)
(* yields the selected channel: a root selected before the re-discovery    *)
(* whose marker executable is gone is not still selected after it.         *)
(***************************************************************************)
C19_RediscoveryDropsStaleRoot ==
    [][ (/\ last'.op \in {"detect_install_dirs", "detect_install_dir"}
         /\ inst.install_dir # None
         /\ inst'.install_dir = inst.install_dir
         /\ inst'.game_version = inst.game_version)
        => detect_version_from_dir(fs', Unwrap(inst'.install_dir)) = inst'.game_version ]_vars

(***************************************************************************)
(* C18 as stated.  apply_patch does not touch the disk: it computes the    *)
(* reconstructed bytes and leaves every file, the patched sibling          *)
(* included, as it was.                                                    *)
(***************************************************************************)
C18_ApplyPatchLeavesDisk ==
    [][ last'.op = "apply_patch" => fs' = fs ]_vars

(***************************************************************************)
(* C18.  apply_patch itself creates the output file and writes to it the   *)
(* bytes reconstructed from the original bytes; it changes no other file   *)
(* and hands back only success.                                            *)
(***************************************************************************)
C18_ApplyPatchWritesOutput ==
    [][ last'.op = "apply_patch"
        => \E original \in {last'.log[1]}, output \in {last'.log[2]} :
               /\ exists(fs', output)
               /\ fs'[output] = bsdiff_patch(fs[original])
               /\ DOMAIN fs' = DOMAIN fs \cup {output}
               /\ \A p \in DOMAIN fs : p # output => fs'[p] = fs[p]
               /\ last'.res = Ok ]_vars

\* the patched sibling created by apply_patch where no install has run
C18_Witness ==
    /\ last.op = "apply_patch"
    /\ fs[join(SteamGameDir, FUNNY_HONEY)] = <<"patched">> \o ORIGINAL_EXE
    /\ ~exists(fs, LauncherPath)
    /\ inst.install_dir = None

\* a step that failed, as the log of an operation records it
FailedStep(e) ==
    \/ Head(e) \in {"write_failed", "remove_failed"}
    \/ e = <<"prompt_retry_cancel", "Cancel">>
\* a failed step whose error the operation hands on
PropagatedFailure(e) ==
    \/ Head(e) = "write_failed"
    \/ e = <<"prompt_retry_cancel", "Cancel">>
PayloadMissingError == Err("IoError", <<"NotFound">>)

(***************************************************************************)
(* C16 as stated.  Every mutating operation stops at its first failing     *)
(* step: a step that failed is the last step of the operation, and the     *)
(* operation returns an error.                                             *)
(***************************************************************************)
C16_StopsAtFirstFailure ==
    last.op \in {"install", "uninstall"}
    => \A k \in DOMAIN last.log :
           FailedStep(last.log[k]) => k = Len(last.log) /\ last.res # Ok

(***************************************************************************)
(* C16.  install and uninstall stop at the first failing step whose error  *)
(* they hand on, and undo nothing.  A refused write is the last step and   *)
(* the operation returns its error; a failed verification is followed by   *)
(* no step; an uninstall that finds the payload missing returns the I/O    *)
(* error and has done nothing at all; every file a completed step wrote is *)
(* there afterwards, every file it removed is gone, and every other file   *)
(* is as it was.  The removal of apphelp.dll is the exception: its failure *)
(* is dropped and the uninstall goes on.                                   *)
(***************************************************************************)
C16_StopsAtFirstPropagatedFailure ==
    [][ last'.op \in {"install", "uninstall"}
        => /\ \A k \in DOMAIN last'.log :
                  PropagatedFailure(last'.log[k])
                  => k = Len(last'.log) /\ last'.res.kind \in {"IoError", "Generic"}
           /\ last'.res.kind = "VerificationError"
              => /\ Len(last'.log) = 2
                 /\ last'.log[2] = <<"read">> \o SteamExePath
           /\ (/\ last'.op = "uninstall"
               /\ inst.install_dir # None
               /\ ~exists(fs, Unwrap(get_current_target_path(inst))))
              => /\ last'.res = PayloadMissingError
                 /\ last'.log = <<>>
                 /\ fs' = fs
           /\ \A p \in (DOMAIN fs) \cup (DOMAIN fs') :
                  IF Wrote(last'.log, p) THEN exists(fs', p)
                  ELSE IF Removed(last'.log, p) THEN ~exists(fs', p)
                  ELSE p \in DOMAIN fs /\ p \in DOMAIN fs' /\ fs'[p] = fs[p] ]_vars

\* an uninstall that found the payload missing and left the patched sibling
\* where it was
C16_Witness ==
    /\ last.op = "uninstall"
    /\ last.res = PayloadMissingError
    /\ inst.install_dir = Some(SteamGameDir)
    /\ ~exists(fs, Unwrap(get_current_target_path(inst)))
    /\ exists(fs, join(SteamGameDir, FUNNY_HONEY))

(***************************************************************************)
(* C17.  An install or uninstall in which the user cancels the             *)
(* Steam-is-running prompt returns the Steam-is-running error; the         *)
(* cancelled prompt is its last step, and it neither writes nor deletes a  *)
(* config or the backup file: each is afterwards as it was before.         *)
(***************************************************************************)
C17_CancelAbortsBeforeConfig ==
    [][ (/\ last'.op \in {"install", "uninstall"}
         /\ Logged(last'.log, <<"prompt_retry_cancel", "Cancel">>))
        => /\ last'.res = SteamRunningError
           /\ last'.log[Len(last'.log)] = <<"prompt_retry_cancel", "Cancel">>
           /\ ~WroteConfig(last'.log)
           /\ ~Wrote(last'.log, BackupPath)
           /\ ~Removed(last'.log, BackupPath)
           /\ \A p \in {BackupPath} \cup {config_path(i) : i \in ProfileIds} :
                  /\ exists(fs', p) <=> exists(fs, p)
                  /\ exists(fs, p) => fs'[p] = fs[p] ]_vars

\* an install cancelled at the prompt after Steam was seen running twice,
\* the config it would have edited untouched and no backup written
C17_Witness ==
    /\ last.op = "install"
    /\ last.res = SteamRunningError
    /\ Wrote(last.log, LauncherPath)
    /\ Logged(last.log, <<"prompt_retry_cancel", "Retry">>)
    /\ Logged(last.log, <<"prompt_retry_cancel", "Cancel">>)
    /\ launch_values(fs)[1] = Some(<<QUOTE, "%command%", QUOTE>>)
    /\ ~exists(fs, BackupPath)

(***************************************************************************)
(* C20.  Backup before mutation.  In an install every write of a config    *)
(* comes immediately after a write of the backup file that went through,   *)
(* and the backup file then holds the value the config held before the     *)
(* install, not the value the edit put there; when the write of the backup *)
(* file is refused, no config is written and every config is as it was.    *)
(***************************************************************************)
C20_BackupBeforeConfig ==
    [][ last'.op = "install"
        => /\ \A i \in ProfileIds : \A k \in DOMAIN last'.log :
                  last'.log[k] = <<"write">> \o config_path(i)
                  => /\ k > 1
                     /\ last'.log[k - 1] = <<"write">> \o BackupPath
                     /\ <<QUOTE>> \o fs'[BackupPath] \o <<QUOTE>>
                            = ValueOrEmpty(launch_values(fs)[i])
                     /\ launch_values(fs')[i] = Some(Override(wine))
                     /\ launch_values(fs)[i] # Some(Override(wine))
           /\ Logged(last'.log, <<"write_failed">> \o BackupPath)
              => /\ ~WroteConfig(last'.log)
                 /\ last'.res = PermissionDenied
                 /\ \A i \in ProfileIds :
                        /\ exists(fs', config_path(i)) <=> exists(fs, config_path(i))
                        /\ exists(fs, config_path(i))
                           => fs'[config_path(i)] = fs[config_path(i)] ]_vars

\* the write of the backup file refused where a config stood ready to be
\* edited: the install failed and the config still holds its value
C20_Witness ==
    /\ last.op = "install"
    /\ last.res = PermissionDenied
    /\ Logged(last.log, <<"write_failed">> \o BackupPath)
    /\ Logged(last.log, <<"read">> \o config_path(1))
    /\ launch_values(fs)[1] = Some(<<QUOTE, "%command%", QUOTE>>)
    /\ ~exists(fs, BackupPath)

(***************************************************************************)
(* The Shim Swap method: the game's own plugin stands at the shadow        *)
(* location in the install tree and is relocated to the shared location.   *)
(***************************************************************************)
ShimSelected(I) == I.install_dir # None /\ I.target = "CriManaVpx" /\ I.game_version = Some("DMM")
ShadowPath(I) ==
    Unwrap(I.install_dir) \o <<"umamusume_Data", "Plugins", "x86_64", "cri_mana_vpx.dll">>
SharedPath(I) == Unwrap(I.install_dir) \o <<"hachimi", "cri_mana_vpx.dll">>
SameOutside(f, g, paths) ==
    \A p \in ((DOMAIN f) \cup (DOMAIN g)) \ paths :
        p \in DOMAIN f /\ p \in DOMAIN g /\ f[p] = g[p]

\* C21: a Shim Swap post_install succeeds; when the shadow copy exists, the
\* shared location holds its content afterwards, the shadow copy is gone and
\* no other file changed; when the shadow copy does not exist, nothing
\* changes; and a second post_install right after changes nothing more.
C21_PostInstallRelocatesShadow ==
    [][(last'.op = "post_install" /\ ShimSelected(inst)) =>
          /\ last'.res = Ok
          /\ exists(fs, ShadowPath(inst)) =>
                 /\ exists(fs', SharedPath(inst))
                 /\ fs'[SharedPath(inst)] = fs[ShadowPath(inst)]
                 /\ ~exists(fs', ShadowPath(inst))
                 /\ SameOutside(fs, fs', {ShadowPath(inst), SharedPath(inst)})
          /\ ~exists(fs, ShadowPath(inst)) => fs' = fs
          /\ \A regOpen \in BOOLEAN, okcancel \in {"Ok", "Cancel"} :
                 /\ post_install(inst', fs', registry', regOpen, okcancel).fs = fs'
                 /\ post_install(inst', fs', registry', regOpen, okcancel).res = Ok]_vars

\* a post_install has just relocated the game's plugin
C21_Witness ==
    /\ last.op = "post_install"
    /\ ShimSelected(inst)
    /\ Wrote(last.log, SharedPath(inst))
    /\ exists(fs, SharedPath(inst))
    /\ fs[SharedPath(inst)] \in {GAME_PLUGIN, UPDATED_PLUGIN}
    /\ ~exists(fs, ShadowPath(inst))

ShimPayloadPath == <<"System32", "cri_mana_vpx.dll">>
SameAt(f, g, p) == (p \in DOMAIN f <=> p \in DOMAIN g) /\ (p \in DOMAIN f => f[p] = g[p])

\* post_install and then uninstall, from a state where the payload is
\* installed and the shadow copy exists
ShimRoundTrip(I, f, reg) ==
    uninstall(I, post_install(I, f, reg, TRUE, "Ok").fs, "absent", "Yes", <<>>)

\* C22: a Shim Swap uninstall moves the relocated library back to the shadow
\* location only if no shadow copy exists there: when a shadow copy exists,
\* the shadow copy and the relocated copy are left as they are; when none
\* exists and the payload was removed, the shadow location gets the
\* relocated copy's content and the relocated copy is gone.  Hence, where
\* the payload is installed, post_install followed by uninstall leaves the
\* shadow copy with its original content.
C22_UninstallMovesBackUnlessShadowed ==
    [][/\ (last'.op = "uninstall" /\ ShimSelected(inst)) =>
              /\ exists(fs, ShadowPath(inst)) =>
                     /\ SameAt(fs, fs', ShadowPath(inst))
                     /\ SameAt(fs, fs', SharedPath(inst))
              /\ (~exists(fs, ShadowPath(inst)) /\ exists(fs, SharedPath(inst))
                      /\ exists(fs, ShimPayloadPath)) =>
                     /\ exists(fs', ShadowPath(inst))
                     /\ fs'[ShadowPath(inst)] = fs[SharedPath(inst)]
                     /\ ~exists(fs', SharedPath(inst))
                     /\ last'.res = Ok
       /\ (ShimSelected(inst) /\ exists(fs, ShadowPath(inst))
               /\ exists(fs, ShimPayloadPath)) =>
              /\ ShimRoundTrip(inst, fs, registry).res = Ok
              /\ exists(ShimRoundTrip(inst, fs, registry).fs, ShadowPath(inst))
              /\ ShimRoundTrip(inst, fs, registry).fs[ShadowPath(inst)] = fs[ShadowPath(inst)]
              /\ ~exists(ShimRoundTrip(inst, fs, registry).fs, SharedPath(inst))]_vars

\* an uninstall right after a post_install has moved the game's plugin back
C22_Witness ==
    /\ last.op = "uninstall"
    /\ last.res = Ok
    /\ ShimSelected(inst)
    /\ Wrote(last.log, ShadowPath(inst))
    /\ Removed(last.log, SharedPath(inst))
    /\ exists(fs, ShadowPath(inst))
    /\ fs[ShadowPath(inst)] = GAME_PLUGIN
    /\ ~exists(fs, SharedPath(inst))

\* C23: for every raw string, the escaped string holds no unescaped quote
\* (an odd number of backslashes stands before each of its quotes), decodes
\* to the raw string, and find_vdf_value_range applied to it between quotes
\* returns the positions of the first and of the last character.
C23_EscapedValueScansWhole ==
    last.op = "escape_vdf_value" =>
        /\ \A b \in 1..Len(last.log[1]) :
               last.log[1][b] = QUOTE => BackslashesBefore(last.log[1], b) % 2 = 1
        /\ Unescape(last.log[1]) = fs[ScannedPath]
        /\ last.res = Some(<<0, Len(last.log[1]) + 1>>)

\* a raw string ending in a backslash and a quote has been escaped and scanned
C23_Witness ==
    /\ last.op = "escape_vdf_value"
    /\ Len(fs[ScannedPath]) >= 2
    /\ fs[ScannedPath][Len(fs[ScannedPath]) - 1] = BACKSLASH
    /\ fs[ScannedPath][Len(fs[ScannedPath])] = QUOTE
    /\ last.res = Some(<<0, Len(fs[ScannedPath]) + 3>>)

(***************************************************************************)
(* The insertion of a missing LaunchOptions key.  Positions are 1-based.   *)
(***************************************************************************)
\* the app block of c, as <<p, q>>: the offsets of its opening and of its
\* closing brace (the characters at positions p + 1 and q + 1)
BlockOf(c) == Unwrap(find_vdf_app_range(c, APP_ID))
\* the app block of c is there and holds no LaunchOptions key
BlockWithoutKey(c) ==
    /\ find_vdf_app_range(c, APP_ID) # None
    /\ ~Contains(SubSeq(c, BlockOf(c)[1] + 1, BlockOf(c)[2]), LAUNCH_OPTIONS_KEY)
\* the override for the Steam root, as it stands in a config
ExpectedValue(wineEnv) == IF wineEnv THEN WineOverride ELSE LauncherOverride
\* the line put into the block for a missing key
InsertedLine(wineEnv) ==
    <<TAB, QUOTE, "LaunchOptions", QUOTE, TAB, TAB>> \o ExpectedValue(wineEnv)
    \o <<NEWLINE, TAB, TAB, TAB, TAB, TAB>>
\* an install step that has written profile i's config whose app block held
\* no LaunchOptions key
InsertedKey(i) ==
    /\ last'.op = "install"
    /\ Wrote(last'.log, config_path(i))
    /\ exists(fs, config_path(i))
    /\ BlockWithoutKey(fs[config_path(i)])

\* C24: when the app block holds no LaunchOptions key, the config written is
\* the old one with the LaunchOptions line (the escaped value between
\* quotes) put immediately before the block's closing brace and nothing
\* else changed, the backup file written is empty, and a scan of the new
\* config finds the key inside the same block, with exactly the expected
\* value.
C24_MissingKeyIsInserted ==
    [][\A i \in ProfileIds : InsertedKey(i) =>
          /\ fs[config_path(i)][BlockOf(fs[config_path(i)])[2] + 1] = RBRACE
          /\ fs'[config_path(i)] =
                 SubSeq(fs[config_path(i)], 1, BlockOf(fs[config_path(i)])[2])
                 \o InsertedLine(wine)
                 \o SubSeq(fs[config_path(i)], BlockOf(fs[config_path(i)])[2] + 1,
                           Len(fs[config_path(i)]))
          /\ Wrote(last'.log, BackupPath)
          /\ fs'[BackupPath] = <<>>
          /\ BlockOf(fs'[config_path(i)]) =
                 <<BlockOf(fs[config_path(i)])[1],
                   BlockOf(fs[config_path(i)])[2] + Len(InsertedLine(wine))>>
          /\ FirstOccurrence(fs'[config_path(i)], LAUNCH_OPTIONS_KEY)
                 = BlockOf(fs[config_path(i)])[2] + 2
          /\ current_quoted_value(fs'[config_path(i)], APP_ID) = Some(ExpectedValue(wine))
          /\ last'.res = Ok]_vars

\* an install has put the LaunchOptions line into the first profile's
\* config, which held the app block without the key
C24_Witness ==
    /\ last.op = "install"
    /\ Wrote(last.log, config_path(1))
    /\ exists(fs, BackupPath)
    /\ fs[BackupPath] = <<>>
    /\ Len(fs[config_path(1)]) = Len(ConfigNoKey) + Len(InsertedLine(wine))
    /\ SubSeq(fs[config_path(1)], 1, BlockOf(ConfigNoKey)[2])
           = SubSeq(ConfigNoKey, 1, BlockOf(ConfigNoKey)[2])
    /\ launch_values(fs)[1] = Some(ExpectedValue(wine))

(***************************************************************************)
(* The Steam check line by line.                                           *)
(***************************************************************************)
InLoop == pc \in {"poll", "prompt", "sleep"}
\* Steam exits for good and the user answers the prompt that is shown, or
\* the user answers Cancel to a prompt
SteamExitsOrUserCancels ==
    \/ <>[](~steamRunning) /\ WF_vars(AnswerRetryCancel)
    \/ SF_vars(AnswerPrompt("Cancel"))

\* C25: the loop of ensure_steam_closed is left only by a poll that sees
\* steam.exe not running (the call returns Ok) or by the answer Cancel (the
\* call returns the Steam-is-running error); a poll that sees Steam running
\* prompts, and the answer Retry sleeps and polls again.  So when Steam
\* eventually exits or the user eventually cancels, the call returns, and
\* while Steam runs and the user answers Retry it does not.
C25_LoopEndsOnExitOrCancel ==
    /\ SteamExitsOrUserCancels => (InLoop ~> pc = "returned")
    /\ [][InLoop =>
            /\ (pc' = "returned") =>
                   \/ pc = "poll" /\ ~steamRunning /\ last'.res = Ok
                   \/ /\ pc = "prompt"
                      /\ last'.log = << <<"prompt_retry_cancel", "Cancel">> >>
                      /\ last'.res = SteamRunningError
            /\ (pc = "poll" /\ steamRunning /\ pc' # pc) => pc' = "prompt"
            /\ (pc = "prompt" /\ pc' # pc
                    /\ last'.log = << <<"prompt_retry_cancel", "Retry">> >>) => pc' = "sleep"
            /\ (pc = "sleep" /\ pc' # pc) => pc' = "poll"
            /\ pc' \in {"poll", "prompt", "sleep", "returned"}]_vars

\* a call made with a UI handle has left the loop: a poll saw steam.exe not
\* running and the call returned Ok
C25_Witness ==
    /\ pc = "returned"
    /\ inst.hwnd # None
    /\ last.op = "ensure_steam_closed"
    /\ last.res = Ok
    /\ last.log = << <<"poll", "not running">> >>
    /\ ~steamRunning

\* the root recorded for a channel
CandidateOf(I, version) ==
    IF version = "DMM" THEN I.dmm_install_dir
    ELSE IF version = "Steam" THEN I.steam_install_dir
    ELSE I.steam_global_install_dir

(***************************************************************************)
(* C26.  After any sequence of new, set_install_dir, detect_install_dir,   *)
(* detect_install_dirs and set_game_version, the selected root, when there *)
(* is one, is the root recorded for the selected channel.                  *)
(***************************************************************************)
C26_SelectedRootIsCandidate ==
    inst.install_dir # None =>
        /\ inst.game_version # None
        /\ inst.install_dir = CandidateOf(inst, Unwrap(inst.game_version))

Channels == {"DMM", "Steam", "SteamGlobal"}
\* the channel of a set of markers: DMM before Steam before SteamGlobal
FirstChannel(ms) ==
    IF MAIN_EXE_DMM \in ms THEN "DMM"
    ELSE IF MAIN_EXE_STEAM \in ms THEN "Steam"
    ELSE "SteamGlobal"

(***************************************************************************)
(* C27.  set_install_dir on a directory that holds no marker executable    *)
(* returns InvalidInstallDir and leaves the installer as it was; on a      *)
(* directory that holds one it returns Ok, install_dir and the candidate   *)
(* of the directory's channel are the directory, game_version is that      *)
(* channel, and the other two candidates are as they were.                 *)
(***************************************************************************)
C27_SetInstallDirFrame ==
    [][last'.op = "set_install_dir" =>
          /\ MarkersIn(fs, last'.log[1]) = {} =>
                 /\ last'.res = Err("InvalidInstallDir", <<>>)
                 /\ inst' = inst
          /\ MarkersIn(fs, last'.log[1]) # {} =>
                 /\ last'.res = Ok
                 /\ inst'.install_dir = Some(last'.log[1])
                 /\ inst'.game_version = Some(FirstChannel(MarkersIn(fs, last'.log[1])))
                 /\ \A v \in Channels :
                        CandidateOf(inst', v) =
                            IF v = FirstChannel(MarkersIn(fs, last'.log[1]))
                            THEN Some(last'.log[1])
                            ELSE CandidateOf(inst, v)
                 /\ inst'.target = inst.target
                 /\ inst'.custom_target = inst.custom_target
                 /\ inst'.hwnd = inst.hwnd]_vars

\* a fourth directory holding the SteamGlobal marker alone has been selected
\* while the DMM root was recorded
C27_Witness ==
    /\ last.op = "set_install_dir"
    /\ last.res = Ok
    /\ last.log = <<Elsewhere>>
    /\ inst.install_dir = Some(Elsewhere)
    /\ inst.game_version = Some("SteamGlobal")
    /\ inst.steam_global_install_dir = Some(Elsewhere)
    /\ inst.dmm_install_dir = Some(DmmDir)

\* what the probe of a channel finds
ProbeOf(v, f, sEnv) ==
    IF v = "DMM" THEN detect_dmm_install_dir(f)
    ELSE IF v = "Steam" THEN detect_steam_install_dir(f, sEnv)
    ELSE detect_steam_global_install_dir(f, sEnv)
NothingFound(f, sEnv) == \A v \in Channels : ProbeOf(v, f, sEnv) = None
\* the first channel, DMM before Steam before SteamGlobal, whose probe finds
\* a root
FirstFound(f, sEnv) ==
    IF ProbeOf("DMM", f, sEnv) # None THEN "DMM"
    ELSE IF ProbeOf("Steam", f, sEnv) # None THEN "Steam"
    ELSE "SteamGlobal"
Selects(I, v, f, sEnv) ==
    I.install_dir = ProbeOf(v, f, sEnv) /\ I.game_version = Some(v)

(***************************************************************************)
(* C28.  Discovery never clears a selection.  detect_install_dir selects   *)
(* the root of the first channel, DMM before Steam before SteamGlobal,     *)
(* whose probe finds one, and leaves install_dir and game_version as they  *)
(* were when no probe finds anything.  detect_install_dirs sets the three  *)
(* candidates to what the probes find; with a root selected it leaves      *)
(* install_dir and game_version as they were, and with none it selects by  *)
(* the same priority.                                                      *)
(***************************************************************************)
C28_DiscoveryKeepsSelection ==
    [][/\ last'.op \in {"detect_install_dir", "detect_install_dirs"} =>
              /\ last'.res = Ok
              /\ inst.install_dir # None => inst'.install_dir # None
              /\ inst.game_version # None => inst'.game_version # None
       /\ last'.op = "detect_install_dir" =>
              /\ NothingFound(fs, steamEnv) =>
                     /\ inst'.install_dir = inst.install_dir
                     /\ inst'.game_version = inst.game_version
              /\ ~NothingFound(fs, steamEnv) =>
                     Selects(inst', FirstFound(fs, steamEnv), fs, steamEnv)
       /\ last'.op = "detect_install_dirs" =>
              /\ \A v \in Channels : CandidateOf(inst', v) = ProbeOf(v, fs, steamEnv)
              /\ inst.install_dir # None =>
                     /\ inst'.install_dir = inst.install_dir
                     /\ inst'.game_version = inst.game_version
              /\ (inst.install_dir = None /\ NothingFound(fs, steamEnv)) =>
                     /\ inst'.install_dir = None
                     /\ inst'.game_version = inst.game_version
              /\ (inst.install_dir = None /\ ~NothingFound(fs, steamEnv)) =>
                     Selects(inst', FirstFound(fs, steamEnv), fs, steamEnv)]_vars

\* detect_install_dir has selected the DMM root where the Steam probe finds
\* a root too
C28_Witness ==
    /\ last.op = "detect_install_dir"
    /\ inst.install_dir = Some(DmmDir)
    /\ inst.game_version = Some("DMM")
    /\ detect_dmm_install_dir(fs) = Some(DmmDir)
    /\ detect_steam_install_dir(fs, steamEnv) = Some(SteamGameDir)

\* where the payload goes on the DMM and SteamGlobal channels, no custom
\* target given
PlainPayloadPath(I) ==
    IF I.target = "UnityPlayer"
    THEN Unwrap(I.install_dir)
         \o <<(IF I.game_version = Some("DMM") THEN "umamusume.exe"
               ELSE "UmamusumePrettyDerby.exe") \o ".local", "UnityPlayer.dll">>
    ELSE IF I.game_version = Some("DMM") THEN <<"System32", "cri_mana_vpx.dll">>
    ELSE Unwrap(I.install_dir) \o <<"cri_mana_vpx.dll">>

(***************************************************************************)
(* C29.  install on the DMM and SteamGlobal channels writes the payload    *)
(* file and does nothing else: it returns Ok, its only event is the write  *)
(* of the payload (no read of the executable for a hash check, no prompt,  *)
(* no poll), and every other file is as it was (no patched executable, no  *)
(* relauncher, no config edit, no backup file).                            *)
(***************************************************************************)
C29_PlainChannelsWritePayloadOnly ==
    [][(/\ last'.op = "install"
        /\ inst.install_dir # None
        /\ inst.game_version \in {Some("DMM"), Some("SteamGlobal")}) =>
          /\ last'.res = Ok
          /\ last'.log = << <<"write">> \o PlainPayloadPath(inst) >>
          /\ exists(fs', PlainPayloadPath(inst))
          /\ fs'[PlainPayloadPath(inst)] = HACHIMI_DLL
          /\ SameOutside(fs, fs', {PlainPayloadPath(inst)})
          /\ saved' = saved
          /\ registry' = registry]_vars

\* the payload written into the SteamGlobal root
C29_Witness ==
    /\ last.op = "install"
    /\ last.res = Ok
    /\ inst.game_version = Some("SteamGlobal")
    /\ inst.install_dir = Some(SteamGlobalDir)
    /\ inst.target = "CriManaVpx"
    /\ last.log = << <<"write">> \o SteamGlobalDir \o <<"cri_mana_vpx.dll">> >>
    /\ fs[SteamGlobalDir \o <<"cri_mana_vpx.dll">>] = HACHIMI_DLL
    /\ ~exists(fs, join(SteamGlobalDir, FUNNY_HONEY))

NoGameExecutableError == Err("IoError", <<"Could not find a valid game executable.">>)
RootHasChannel(I) == I.install_dir # None => I.game_version # None

(***************************************************************************)
(* C30.  In every state that new, set_install_dir, detect_install_dir,     *)
(* detect_install_dirs and set_game_version reach, a selected root comes   *)
(* with a selected channel.  Hence no install ends with the error of the   *)
(* branch for a missing game version, and an install with no root selected *)
(* returns NoInstallDir, has written nothing and has changed no file.      *)
(***************************************************************************)
C30_RootImpliesChannel ==
    [][/\ RootHasChannel(inst)
       /\ RootHasChannel(inst')
       /\ last'.op = "install" =>
              /\ last'.res # NoGameExecutableError
              /\ inst.install_dir = None =>
                     /\ last'.res = Err("NoInstallDir", <<>>)
                     /\ last'.log = <<>>
                     /\ fs' = fs]_vars

\* an install called with a channel chosen by set_game_version and no root
\* recorded for it
C30_Witness ==
    /\ last.op = "install"
    /\ last.res = Err("NoInstallDir", <<>>)
    /\ last.log = <<>>
    /\ inst.install_dir = None
    /\ inst.game_version # None

(***************************************************************************)
(* Several Steam user profiles.  Profiles are taken in the order of their  *)
(* ids, the order the directory is read in.                                *)
(***************************************************************************)
ConfigWrites(log) == Cardinality({k \in DOMAIN log : \E i \in ProfileIds :
                                      log[k] = <<"write">> \o config_path(i)})
BackupWrites(log) == Cardinality({k \in DOMAIN log : log[k] = <<"write">> \o BackupPath})
\* a config the edit loop modifies: the app block without the key, or with
\* a quoted value
Editable(c) == BlockWithoutKey(c) \/ HasQuotedValue(c)
\* a config whose LaunchOptions value names the patched executable
HoldsMarker(c) == HasQuotedValue(c) /\ Contains(PriorInner(c), <<"FunnyHoney.exe">>)
\* the config with its quoted value replaced by the backup value in quotes
RestoredFrom(c, backup) ==
    SubSeq(c, 1, OpenQuote(c) - 1) \o <<QUOTE>> \o backup \o <<QUOTE>>
    \o SubSeq(c, CloseQuoteAfter(c, OpenQuote(c)) + 1, Len(c))

\* C31: one install writes at most one profile's config, the first in
\* directory order that the edit modifies, and with it exactly one backup
\* value; every other config stays as it was.  An uninstall that restores
\* rewrites every profile whose LaunchOptions value contains
\* "FunnyHoney.exe", each with the one backup value in quotes, and leaves
\* every profile whose value does not contain it as it was.
C31_OneEditManyRestores ==
    [][/\ last'.op = "install" =>
              /\ ConfigWrites(last'.log) <= 1
              /\ BackupWrites(last'.log) = ConfigWrites(last'.log)
              /\ \A i \in ProfileIds :
                     IF Wrote(last'.log, config_path(i))
                     THEN /\ exists(fs, config_path(i))
                          /\ Editable(fs[config_path(i)])
                          /\ \A j \in 1..(i - 1) :
                                 exists(fs, config_path(j)) => ~Editable(fs[config_path(j)])
                     ELSE SameAt(fs, fs', config_path(i))
       /\ last'.op = "uninstall" =>
              /\ BackupWrites(last'.log) = 0
              /\ \A i \in ProfileIds :
                     IF exists(fs, config_path(i)) /\ HoldsMarker(fs[config_path(i)])
                            /\ Removed(last'.log, BackupPath)
                     THEN /\ Wrote(last'.log, config_path(i))
                          /\ fs'[config_path(i)] =
                                 RestoredFrom(fs[config_path(i)], fs[BackupPath])
                     ELSE /\ ~Wrote(last'.log, config_path(i))
                          /\ SameAt(fs, fs', config_path(i))]_vars

\* an uninstall has rewritten two profiles with the one backup value
C31_Witness ==
    /\ last.op = "uninstall"
    /\ last.res = Ok
    /\ Wrote(last.log, config_path(1))
    /\ Wrote(last.log, config_path(2))
    /\ launch_values(fs)[1] = launch_values(fs)[2]
    /\ launch_values(fs)[1] = Some(<<QUOTE, "FunnyHoney.exe", SPACE, "-old", QUOTE>>)
    /\ ~exists(fs, BackupPath)

====
